---- MODULE Spec2Model ----
(***************************************************************************)
(* Model of the file scanner of windows_fresh_setup:                       *)
(*   - FileScraper.scan_all_files (src/src/scraper.py): a pool of          *)
(*     worker_count worker tasks draining a queue of directories;          *)
(*   - run_scraper (src/src/main.py): the scan built around the walk, its  *)
(*     filters and its reports to the widgets of the main window;          *)
(*   - perform_backup (src/src/ui.py): the copy of the files of a scan;    *)
(*   - FileScraper.find_files (src/src/scraper.py): the same walk with a   *)
(*     pattern and a callback;                                             *)
(*   - open_settings_menu and open_block_folders_window (src/src/ui.py):   *)
(*     the windows that edit the skip patterns of the settings.            *)
(*                                                                         *)
(* Every call of scan_all_files and of run_scraper has its own thread and  *)
(* its own local variables: the variables of the model that stand for them *)
(* are functions of the scan (a number).  In the specifications of the     *)
(* walk a path is a sequence of entry names, and an entry name is a node   *)
(* number of the file system chosen in Init; in the specifications of the  *)
(* filters a path is a sequence of characters.  Worker tasks are           *)
(* anonymous: the model counts the tasks at each position of worker() and  *)
(* keeps the listings in progress in a bag.                                *)
(***************************************************************************)
EXTENDS Integers, Sequences, FiniteSets, Bags, TLC

VARIABLES
    fs,          \* the directory tree: parent, kind and link target of each node
    \* locals of one call of scan_all_files, per scan
    paths,       \* the argument of scan_all_files: the list of roots
    dir_queue,   \* Queue: the pending directories, in FIFO order
    unfinished,  \* Queue.unfinished_tasks: put() calls not yet matched by task_done()
    all_files,   \* the list of file paths collected so far
    ready,       \* number of worker tasks about to call dir_queue.get_nowait():
                 \* not started yet, or back at the top of the loop
    listing,     \* bag of the listings in progress, one per worker inside the try block
    failed,      \* number of worker tasks ended by an exception
    listed,      \* history: how many times os.scandir was called on each directory node
    \* locals of one call of run_scraper, per scan
    pc,          \* position of the thread running run_scraper
    scan_mode,   \* the category of the scan: "text", "image", "video" or "full"
    files_to_scan,  \* the result of get_files_by_scan_mode
    filtered_files, \* the result of apply_additional_filters
    reported,    \* history: the callbacks the scan has given to root.after
    persisted,   \* history: the list the scan has written to results.json
    \* shared by the scans
    settings,    \* the settings dictionary
    results_json,   \* the contents of results.json
    ui_queue,    \* the callbacks given to root.after(0, ...) and not yet run
    progress,    \* the value of the progress bar
    status,      \* the text of the status label
    backup_enabled, \* whether the backup button is enabled
    backup_files,   \* the list bound to the command of the backup button
    \* locals of one call of perform_backup
    bk_pc,       \* position in perform_backup
    files_to_backup, \* its argument: the list of file records
    use_categories,  \* its argument: whether the files are sorted into categories
    bk_next,     \* index of the next file of the loop
    copied,      \* the counter of the loop
    bk_log,      \* history: the source, the destination and the outcome of every
                 \* copy attempted, in order
    bk_shown,    \* the count shown by the final message box
    \* locals of one call of find_files
    pattern,     \* its argument: the glob pattern of the file names
    file_found_callback, \* its argument: "none", or "given" when there is a callback
    calling,     \* bag of the listings whose worker has recorded a file and
                 \* has not yet called the callback for it
    called,      \* history: the paths the callback was called with, in order
    \* the windows of the settings
    skip_listbox,    \* per settings window: whether it is open, and the
                     \* patterns its list box shows
    folders_listbox, \* per block window: whether it is open, and the folders
                     \* its list box shows
    blocked,     \* history: the folders block_selected stored before the scan
    overlapped   \* history: whether a scan started while another was running

walkvars == <<fs, paths, dir_queue, unfinished, all_files, ready,
              listing, failed, listed>>
scanvars == <<pc, scan_mode, files_to_scan, filtered_files, reported,
              persisted, settings, results_json>>
uivars == <<ui_queue, progress, status, backup_enabled, backup_files>>
bkvars == <<bk_pc, files_to_backup, use_categories, bk_next, copied, bk_log,
            bk_shown>>
findvars == <<pattern, file_found_callback, calling, called>>
winvars == <<skip_listbox, folders_listbox, blocked>>
vars == <<walkvars, scanvars, uivars, bkvars, findvars, winvars, overlapped>>

\* The scans of the run: the calls of run_scraper or of scan_all_files.
Scans == DOMAIN pc

----------------------------------------------------------------------------
(* Bounds and program constants *)

worker_count == 64
MaxNodes == 3
MaxRoots == 2
MaxLinks == 1
MaxFaults == 1
MaxScans == 2
MaxWindows == 2
MaxBlockWindows == 1
MaxPatterns == 2

Nodes == 1..MaxNodes
Missing == 0

DirKinds == {"dir", "denied", "ioerr"}
Kinds == DirKinds \cup {"file", "link"}

----------------------------------------------------------------------------
(* The file system seen through os.scandir and os.DirEntry *)

\* The directory node a path names, following a symbolic link at its end.
Resolve(path) ==
    LET n == path[Len(path)]
    IN  IF n = Missing THEN Missing
        ELSE IF fs.kind[n] = "link" THEN fs.target[n] ELSE n

\* DirEntry.path of every entry os.scandir yields for the directory.
Entries(path) ==
    { Append(path, c) : c \in { m \in Nodes : fs.parent[m] = Resolve(path) } }

\* Number of symbolic links among the components of the path.
LinkCount(path) ==
    Cardinality({ i \in 1..Len(path) : path[i] # Missing /\ fs.kind[path[i]] = "link" })

\* os.stat of a symbolic link fails with OSError when following it passes
\* the system's limit of symbolic links in one path.
StatError(path) ==
    fs.kind[path[Len(path)]] = "link" /\ LinkCount(path) > MaxLinks

\* DirEntry.is_file(): follows symbolic links; links of the model point to directories.
IsFile(path) == fs.kind[path[Len(path)]] = "file"

\* DirEntry.is_dir(): follows symbolic links.
IsDir(path) == fs.kind[path[Len(path)]] \in DirKinds \cup {"link"}

\* The exception os.scandir(path) raises when it is called: "none", "perm"
\* (PermissionError) or "os" (another OSError: missing path, too many levels
\* of symbolic links).
OpenError(path) ==
    LET n == Resolve(path)
    IN  IF n = Missing THEN "os"
        ELSE IF LinkCount(path) > MaxLinks THEN "os"
        ELSE IF fs.kind[n] = "denied" THEN "perm"
        ELSE "none"

\* The runs os.scandir(path) can make: the entries it yields before it stops
\* and the exception that stops it.
Listings(path) ==
    IF OpenError(path) # "none"
    THEN { [dir |-> path, todo |-> {}, err |-> OpenError(path)] }
    ELSE IF fs.kind[Resolve(path)] = "ioerr"
    THEN { [dir |-> path, todo |-> s, err |-> "os"] : s \in SUBSET Entries(path) }
    ELSE { [dir |-> path, todo |-> Entries(path), err |-> "none"] }

RECURSIVE PathOf(_, _)
PathOf(f, n) == IF f.parent[n] = 0 THEN <<n>> ELSE Append(PathOf(f, f.parent[n]), n)

----------------------------------------------------------------------------
(* Initial states: scan_all_files has seeded the queue and submitted the tasks *)

\* The trees of MaxNodes nodes below one top directory (node 1).
FileSystems ==
    { f \in [parent : [Nodes -> 0..(MaxNodes - 1)],
             kind   : [Nodes -> Kinds],
             target : [Nodes -> 0..MaxNodes]] :
        \A n \in Nodes :
            /\ f.parent[n] < n
            /\ n > 1 => f.parent[n] # 0
            /\ f.parent[n] # 0 => f.kind[f.parent[n]] \in DirKinds
            /\ IF f.kind[n] = "link"
               THEN f.target[n] \in Nodes /\ f.kind[f.target[n]] \in DirKinds
               ELSE f.target[n] = 0 }

\* The roots a caller passes: directories of the tree, or a path that does
\* not exist (any more).
RootPaths(f) ==
    { PathOf(f, n) : n \in { m \in Nodes : f.kind[m] \in DirKinds } } \cup { <<Missing>> }

RootLists(f) ==
    UNION { [1..k -> RootPaths(f)] : k \in 0..MaxRoots }

\* Number of things that can make a listing fail: unreadable directories,
\* directories with I/O errors, symbolic links, missing roots.
Faults(f, roots) ==
    Cardinality({ n \in Nodes : f.kind[n] \in {"denied", "ioerr", "link"} })
    + Cardinality({ i \in 1..Len(roots) : roots[i] = <<Missing>> })

\* dict.get(key, default)
GetOr(dict, key, default) == IF key \in DOMAIN dict THEN dict[key] ELSE default

\* The contents of results.json: none before the first scan has written it,
\* the list json.dump was given, or the beginning of its text only.
NoFile == [text |-> "none", list |-> <<>>]
File(list) == [text |-> "whole", list |-> list]
Truncated == [text |-> "cut short", list |-> <<>>]

\* run_scraper has not been called, or is inside scan_all_files: its locals
\* after the walk have no value yet.
ScanLocals(ids) ==
    /\ files_to_scan = [s \in ids |-> <<>>]
    /\ filtered_files = [s \in ids |-> <<>>]
    /\ reported = [s \in ids |-> <<>>]
    /\ persisted = [s \in ids |-> NoFile]

\* create_ui: the widgets of the main window.
Widgets ==
    /\ ui_queue = <<>>
    /\ progress = 0
    /\ status = "Status: Ready"
    /\ backup_enabled = FALSE
    /\ backup_files = <<>>

\* perform_backup has not been called.
NoBackup ==
    /\ bk_pc = "idle"
    /\ files_to_backup = <<>>
    /\ use_categories = TRUE
    /\ bk_next = 1
    /\ copied = 0
    /\ bk_log = <<>>
    /\ bk_shown = -1

\* find_files has not been called.
NoFind ==
    /\ pattern = <<>>
    /\ file_found_callback = "none"
    /\ calling = EmptyBag
    /\ called = <<>>

\* The settings windows and the block windows the user can have open.
Windows == 1..MaxWindows
BlockWindows == 1..MaxBlockWindows

\* A window that is not open, and a window whose list box shows the items.
Closed == [open |-> FALSE, items |-> <<>>]
Showing(items) == [open |-> TRUE, items |-> items]

\* open_settings_menu has not been called.
NoWindows ==
    /\ skip_listbox = [w \in Windows |-> Closed]
    /\ folders_listbox = [w \in BlockWindows |-> Closed]
    /\ blocked = {}

\* The locals of scan_all_files when it has seeded the queue and submitted
\* the tasks, for each of the scans.
WalkStarted(ids) ==
    /\ dir_queue = paths
    /\ unfinished = [s \in ids |-> Len(paths[s])]
    /\ all_files = [s \in ids |-> <<>>]
    /\ ready = [s \in ids |-> worker_count]
    /\ listing = [s \in ids |-> EmptyBag]
    /\ failed = [s \in ids |-> 0]
    /\ listed = [s \in ids |-> [n \in Nodes |-> 0]]
    /\ pc = [s \in ids |-> "join"]

\* One scan: a full scan with an empty settings dictionary, inside
\* scan_all_files.
Init ==
    /\ fs \in FileSystems
    /\ paths \in [{1} -> RootLists(fs)]
    /\ Faults(fs, paths[1]) <= MaxFaults
    /\ WalkStarted({1})
    /\ scan_mode = [s \in {1} |-> "full"]
    /\ ScanLocals({1})
    /\ settings = <<>>
    /\ results_json = NoFile
    /\ Widgets
    /\ NoBackup
    /\ NoFind
    /\ NoWindows
    /\ overlapped = FALSE

----------------------------------------------------------------------------
(* worker() *)

\* dir_queue.get_nowait() followed by the call of os.scandir(current_dir).
Dequeue(s) ==
    /\ dir_queue[s] # <<>>
    /\ LET current_dir == Head(dir_queue[s])
       IN  /\ dir_queue' = [dir_queue EXCEPT ![s] = Tail(@)]
           /\ \E l \in Listings(current_dir) :
                  listing' = [listing EXCEPT ![s] = @ (+) SetToBag({l})]
           /\ listed' = IF Resolve(current_dir) \in Nodes /\ OpenError(current_dir) # "os"
                        THEN [listed EXCEPT ![s][Resolve(current_dir)] = @ + 1]
                        ELSE listed

\* Mutant of Get: a new task is submitted for every directory taken.
Get_TaskPerDirectory(s) ==
    /\ ready[s] > 0
    /\ Dequeue(s)
    /\ UNCHANGED <<fs, paths, unfinished, all_files, ready, failed, scanvars, uivars,
                   bkvars, findvars, winvars, overlapped>>

\* A task calls get_nowait() and receives a directory.
Get(s) ==
    /\ ready[s] > 0
    /\ Dequeue(s)
    /\ ready' = [ready EXCEPT ![s] = @ - 1]
    /\ UNCHANGED <<fs, paths, unfinished, all_files, failed, scanvars, uivars, bkvars,
                   findvars, winvars, overlapped>>

\* Mutant of Exit: a task returns without looking at the queue.
Exit_QueueNotChecked(s) ==
    /\ ready[s] > 0
    /\ ready' = [ready EXCEPT ![s] = @ - 1]
    /\ UNCHANGED <<fs, paths, dir_queue, unfinished, all_files, listing, failed,
                   listed, scanvars, uivars, bkvars,
                   findvars, winvars, overlapped>>

\* A task calls get_nowait() on the empty queue: Empty, break, the task returns.
Exit(s) ==
    /\ ready[s] > 0
    /\ dir_queue[s] = <<>>
    /\ ready' = [ready EXCEPT ![s] = @ - 1]
    /\ UNCHANGED <<fs, paths, dir_queue, unfinished, all_files, listing, failed,
                   listed, scanvars, uivars, bkvars,
                   findvars, winvars, overlapped>>

\* Mutant of Record: the name of the entry is recorded, not its path.
Record_EntryName(files, entry) == Append(files, <<entry[Len(entry)]>>)

\* "with lock: all_files.append(entry.path)"
Record(files, entry) == Append(files, entry)

\* Mutant of ResultList: all_files is an attribute of the FileScraper
\* instance, which the scans share.
ResultList_OfInstance(s) == 1

\* The list a worker of the scan appends to: all_files is a local variable of
\* the call of scan_all_files that started the worker.
ResultList(s) == s

\* One iteration of "for entry in os.scandir(current_dir)".  An OSError
\* raised by entry.is_file() ends the loop.
Entry(s) ==
    \E l \in BagToSet(listing[s]) : \E e \in l.todo :
        LET rest == IF StatError(e)
                    THEN [l EXCEPT !.todo = {}, !.err = "os"]
                    ELSE [l EXCEPT !.todo = @ \ {e}]
        IN  /\ listing' = [listing EXCEPT
                              ![s] = (@ (-) SetToBag({l})) (+) SetToBag({rest})]
            /\ IF StatError(e)
               THEN UNCHANGED <<dir_queue, unfinished, all_files>>
               ELSE IF IsFile(e)
               THEN /\ all_files' = [all_files EXCEPT ![ResultList(s)] = Record(@, e)]
                    /\ UNCHANGED <<dir_queue, unfinished>>
               ELSE IF IsDir(e)
               THEN /\ dir_queue' = [dir_queue EXCEPT ![s] = Append(@, e)]
                    /\ unfinished' = [unfinished EXCEPT ![s] = @ + 1]
                    /\ UNCHANGED all_files
               ELSE UNCHANGED <<dir_queue, unfinished, all_files>>
            /\ UNCHANGED <<fs, paths, ready, failed, listed, scanvars, uivars, bkvars,
                   findvars, winvars, overlapped>>

\* Mutant of Escapes: worker() without its except clause.
Escapes_NoExceptClause(err) == err # "none"

\* "except PermissionError: pass": whether the exception that ended the
\* listing leaves worker().
Escapes(err) == err = "os"

\* The end of the listing: the except clause, then
\* "finally: dir_queue.task_done()".
TaskDone(s) ==
    \E l \in BagToSet(listing[s]) :
        /\ l.todo = {}
        /\ listing' = [listing EXCEPT ![s] = @ (-) SetToBag({l})]
        /\ unfinished' = [unfinished EXCEPT ![s] = @ - 1]
        /\ IF Escapes(l.err)
           THEN failed' = [failed EXCEPT ![s] = @ + 1] /\ UNCHANGED ready
           ELSE ready' = [ready EXCEPT ![s] = @ + 1] /\ UNCHANGED failed
        /\ UNCHANGED <<fs, paths, dir_queue, all_files, listed, scanvars, uivars, bkvars,
                   findvars, winvars, overlapped>>

----------------------------------------------------------------------------
(* The thread that called scan_all_files *)

\* Mutant of AllTasksDone: the join waits for an empty queue only.
AllTasksDone_QueueEmpty(s) == dir_queue[s] = <<>>

\* The condition Queue.join() waits for.
AllTasksDone(s) == unfinished[s] = 0

\* dir_queue.join() returns.
Join(s) ==
    /\ pc[s] = "join"
    /\ AllTasksDone(s)
    /\ pc' = [pc EXCEPT ![s] = "shutdown"]
    /\ UNCHANGED <<walkvars, scan_mode, files_to_scan, filtered_files, reported,
                   persisted, settings, results_json, uivars, bkvars,
                   findvars, winvars, overlapped>>

\* The with block ends: ThreadPoolExecutor.shutdown(wait=True) returns when
\* every submitted task has run to its end, and scan_all_files returns.
Return(s) ==
    /\ pc[s] = "shutdown"
    /\ ready[s] = 0 /\ listing[s] = EmptyBag
    /\ pc' = [pc EXCEPT ![s] = "returned"]
    /\ UNCHANGED <<walkvars, scan_mode, files_to_scan, filtered_files, reported,
                   persisted, settings, results_json, uivars, bkvars,
                   findvars, winvars, overlapped>>

Next ==
    \/ \E s \in Scans : Get(s)
    \/ \E s \in Scans : Exit(s)
    \/ \E s \in Scans : Entry(s)
    \/ \E s \in Scans : TaskDone(s)
    \/ \E s \in Scans : Join(s)
    \/ \E s \in Scans : Return(s)

Spec == Init /\ [][Next]_vars

\* Every thread that can take a step eventually takes one.
FairSpec == Spec /\ WF_vars(Next)

----------------------------------------------------------------------------
(* What a walk should return, read off the tree *)

Range(seq) == { seq[i] : i \in 1..Len(seq) }
Count(seq, x) == Cardinality({ i \in 1..Len(seq) : seq[i] = x })

\* The regular files reachable from a directory through listable directories.
RECURSIVE FilesBelow(_)
FilesBelow(path) ==
    IF OpenError(path) # "none" THEN {}
    ELSE UNION { IF StatError(e) THEN {}
                 ELSE IF fs.kind[e[Len(e)]] = "file" THEN {e}
                 ELSE FilesBelow(e) : e \in Entries(path) }

\* The files a walk of the roots should return.
Reachable(roots) == UNION { FilesBelow(roots[i]) : i \in 1..Len(roots) }

\* Whether a walk from the directory meets the limit of symbolic links.
RECURSIVE MeetsLinkLimit(_)
MeetsLinkLimit(path) ==
    /\ OpenError(path) = "none"
    /\ \E e \in Entries(path) :
           StatError(e) \/ (fs.kind[e[Len(e)]] # "file" /\ MeetsLinkLimit(e))

RECURSIVE IsAncestor(_, _)
IsAncestor(a, n) ==
    fs.parent[n] # 0 /\ (fs.parent[n] = a \/ IsAncestor(a, fs.parent[n]))

RootsExist == \A s \in Scans : \A i \in 1..Len(paths[s]) : paths[s][i] # <<Missing>>
KindsWithin(ks) == \A n \in Nodes : fs.kind[n] \in ks
AllReadable == KindsWithin({"dir", "file"}) /\ RootsExist
HasDenied == \E n \in Nodes : fs.kind[n] = "denied"
OnlyDenied == KindsWithin({"dir", "file", "denied"}) /\ RootsExist
HasLinkCycle == \E n \in Nodes : fs.kind[n] = "link" /\ IsAncestor(fs.target[n], n)
SameListingEveryRun ==
    /\ \A n \in Nodes : fs.kind[n] # "ioerr"
    /\ \A s \in Scans : \A i \in 1..Len(paths[s]) :
           paths[s][i] = <<Missing>> \/ ~MeetsLinkLimit(paths[s][i])

Alive(s) == ready[s] + BagCardinality(listing[s])
Returned(s) == pc[s] \notin {"join", "shutdown"}

----------------------------------------------------------------------------
(* Claims about the walk *)

\* C1: on a tree whose directories are all readable, for every list of
\* roots, the list scan_all_files returns holds each regular file reachable
\* from the roots exactly once, and nothing else.
C1_EachFileExactlyOnce ==
    \A s \in Scans :
        (AllReadable /\ Returned(s)) =>
            /\ \A f \in Reachable(paths[s]) : Count(all_files[s], f) = 1
            /\ Range(all_files[s]) \subseteq Reachable(paths[s])

\* C2: dir_queue.join() is released, and scan_all_files returns, only when
\* the queue is empty and no listing is in progress; when scan_all_files has
\* returned every worker task has ended, and no later step changes the
\* returned list or the queue.
C2_ReturnsOnlyWhenAllWorkDone ==
    /\ [](\A s \in Scans :
             pc[s] # "join" => (dir_queue[s] = <<>> /\ listing[s] = EmptyBag))
    /\ [](\A s \in Scans : Returned(s) => ready[s] = 0)
    /\ [][\A s \in Scans :
             Returned(s) => (all_files'[s] = all_files[s]
                             /\ dir_queue'[s] = dir_queue[s])]_vars

C2_Witness ==
    /\ pc[1] = "returned"
    /\ Len(all_files[1]) >= 2
    /\ \E n \in Nodes : n > 1 /\ listed[1][n] >= 1

\* C3: whatever error ends a listing, the worker that was listing is not
\* terminated, and work that remains always has a worker left to do it.
C3_WorkerSurvivesAnyListingError ==
    \A s \in Scans :
        /\ failed[s] = 0
        /\ unfinished[s] > 0 => Alive(s) > 0

\* The walks of C4: the trees with a directory whose listing is denied and
\* no other kind of failure; every thread that can take a step eventually
\* takes one.
DeniedInit == Init /\ HasDenied /\ OnlyDenied
DeniedFairSpec == DeniedInit /\ [][Next]_vars /\ WF_vars(Next)

\* C4: on a tree with a directory whose listing is denied (and no other kind
\* of failure), no worker raises, the walk ends, and the files returned are
\* the regular files reachable from the roots outside the denied directories.
C4_DeniedDirectorySkipped ==
    /\ []((HasDenied /\ OnlyDenied) =>
             (failed[1] = 0
              /\ (Returned(1) => Range(all_files[1]) = Reachable(paths[1]))))
    /\ ((HasDenied /\ OnlyDenied) ~> Returned(1))

\* The walk has returned a file although a directory next to it was denied.
C4_Witness ==
    /\ pc[1] = "returned"
    /\ OnlyDenied
    /\ all_files[1] # <<>>
    /\ \E n \in Nodes : fs.kind[n] = "denied" /\ listed[1][n] >= 1

\* C5: a walk never blocks: while scan_all_files has not returned, some
\* thread of the scan can take a step.
C5_ScanNeverBlocks ==
    (\E s \in Scans : ~Returned(s)) => ENABLED Next

\* C6: when the listing of every directory is the same on every run, the set
\* of paths scan_all_files returns is a function of the tree and the roots:
\* no interleaving of the workers changes it.
C6_ResultSetIndependentOfSchedule ==
    \A s \in Scans :
        (SameListingEveryRun /\ Returned(s)) =>
            Range(all_files[s]) = Reachable(paths[s])

\* Two files returned in the order opposite to the order of their names.
C6_Witness ==
    /\ pc[1] = "returned"
    /\ SameListingEveryRun
    /\ Len(all_files[1]) = 2
    /\ all_files[1][1][Len(all_files[1][1])] > all_files[1][2][Len(all_files[1][2])]

\* C7: no directory is listed twice in one walk.
C7_NoDirectoryListedTwice ==
    \A s \in Scans : \A n \in Nodes : listed[s][n] <= 1

\* C8: on a tree with a symbolic link to one of its ancestors, walked from
\* its top directory, every directory is listed at most once.
C8_LinkCycleNotFollowed ==
    \A s \in Scans :
        (HasLinkCycle /\ paths[s] = << <<1>> >>) => \A n \in Nodes : listed[s][n] <= 1

\* The walks of C22: every directory of the tree is readable and every
\* root exists; every thread that can take a step eventually takes one.
ReadableInit == Init /\ AllReadable
ReadableFairSpec == ReadableInit /\ [][Next]_vars /\ WF_vars(Next)

\* C22: in a tree whose directories are all readable, a worker that has
\* left does not come back, yet while the queue holds a directory or a
\* listing is in progress a worker is alive that will call get_nowait()
\* again: no worker has raised, a queued directory always has a worker that
\* is ready or will be after its listing, the walk returns, and it returns
\* with every directory reachable from the roots listed and every file
\* recorded.
C22_NoDirectoryStranded ==
    /\ [](\A s \in Scans :
             /\ failed[s] = 0
             /\ (dir_queue[s] # <<>> \/ listing[s] # EmptyBag) => Alive(s) > 0
             /\ unfinished[s] = Len(dir_queue[s]) + BagCardinality(listing[s]))
    /\ [][\A s \in Scans : Alive(s)' <= Alive(s)]_vars
    /\ [](\A s \in Scans :
             Returned(s) => (dir_queue[s] = <<>>
                             /\ Range(all_files[s]) = Reachable(paths[s])))
    /\ <>(\A s \in Scans : Returned(s))

\* All workers but one have left while the root was being listed, and the
\* last one has queued a subdirectory.
C22_Witness ==
    /\ AllReadable
    /\ dir_queue[1] # <<>>
    /\ ready[1] = 0
    /\ BagCardinality(listing[1]) = 1
    /\ pc[1] = "join"

\* The worker tasks of the walk: those that run and those an exception ended.
Workers(s) == Alive(s) + failed[s]

\* C23: whatever the roots and the tree, at most worker_count directories
\* are being listed at the same time, the worker tasks are at most
\* worker_count, and no step of the walk adds a worker task to those the
\* walk started with.
C23_WorkersBoundedByPool ==
    /\ [](\A s \in Scans :
             /\ BagCardinality(listing[s]) <= worker_count
             /\ Workers(s) <= worker_count)
    /\ [][\A s \in Scans : Workers(s)' <= Workers(s)]_vars

\* Two roots are being listed at the same time, a subdirectory waits in the
\* queue, and the two workers listing are the only ones left.
C23_Witness ==
    /\ Len(paths[1]) = 2
    /\ BagCardinality(listing[1]) = 2
    /\ ready[1] = 0
    /\ dir_queue[1] # <<>>

----------------------------------------------------------------------------
(* Two walks at the same time: two calls of scan_all_files on the same     *)
(* FileScraper, from two scans or from initial_index and a scan            *)

\* The lists of one root, a directory of the tree.
OneRoot(f) == { <<p>> : p \in RootPaths(f) \ { <<Missing>> } }

\* Both calls have seeded their queue and submitted their tasks; every
\* directory of the tree is readable and the tree holds a file.
TwoWalksInit ==
    /\ fs \in FileSystems
    /\ \A n \in Nodes : fs.kind[n] \in {"dir", "file"}
    /\ \E n \in Nodes : fs.kind[n] = "file"
    /\ paths \in [1..MaxScans -> OneRoot(fs)]
    /\ WalkStarted(1..MaxScans)
    /\ scan_mode = [s \in 1..MaxScans |-> "full"]
    /\ ScanLocals(1..MaxScans)
    /\ settings = <<>>
    /\ results_json = NoFile
    /\ Widgets
    /\ NoBackup
    /\ NoFind
    /\ NoWindows
    /\ overlapped = FALSE

TwoWalksSpec == TwoWalksInit /\ [][Next]_vars

\* Whether the path lies below one of the roots, or is one of them.
BelowRoots(path, roots) ==
    \E i \in 1..Len(roots) :
        Len(roots[i]) <= Len(path) /\ SubSeq(path, 1, Len(roots[i])) = roots[i]

\* C19: of two walks that run at the same time, each returns the files
\* below its own roots, each exactly once, and nothing else, and the queue
\* of each holds directories below its own roots only.
C19_WalksShareNothing ==
    \A s \in Scans :
        /\ \A i \in 1..Len(dir_queue[s]) : BelowRoots(dir_queue[s][i], paths[s])
        /\ \A i \in 1..Len(all_files[s]) : BelowRoots(all_files[s][i], paths[s])
        /\ Returned(s) =>
               /\ \A f \in Reachable(paths[s]) : Count(all_files[s], f) = 1
               /\ Range(all_files[s]) \subseteq Reachable(paths[s])

\* Both walks have returned: the first the file below its root, the second
\* nothing, its root being another directory.
C19_Witness ==
    /\ \A s \in Scans : pc[s] = "returned"
    /\ Len(all_files[1]) = 1
    /\ all_files[2] = <<>>
    /\ listed[2] # [n \in Nodes |-> 0]

----------------------------------------------------------------------------
(* The category filter.  A file path is a sequence of characters. *)

MaxFiles == 2

UpperCase == <<"A", "B", "C", "D", "E", "F", "G", "H", "I", "J", "K", "L", "M",
               "N", "O", "P", "Q", "R", "S", "T", "U", "V", "W", "X", "Y", "Z">>
LowerCase == <<"a", "b", "c", "d", "e", "f", "g", "h", "i", "j", "k", "l", "m",
               "n", "o", "p", "q", "r", "s", "t", "u", "v", "w", "x", "y", "z">>

\* The lower-case letter of every upper-case letter.
ToLower ==
    [c \in { UpperCase[k] : k \in 1..Len(UpperCase) } |->
        LowerCase[CHOOSE k \in 1..Len(UpperCase) : UpperCase[k] = c]]

\* str.lower()
Lower(str) ==
    [i \in 1..Len(str) |->
        IF str[i] \in DOMAIN ToLower THEN ToLower[str[i]] ELSE str[i]]

\* str.endswith(suffix)
EndsWith(str, suffix) ==
    /\ Len(str) >= Len(suffix)
    /\ SubSeq(str, Len(str) - Len(suffix) + 1, Len(str)) = suffix

\* str.endswith(tuple of suffixes)
EndsWithAny(str, suffixes) == \E x \in suffixes : EndsWith(str, x)

TextExtensions == { <<".", "t", "x", "t">>, <<".", "a", "s", "c">> }
ImageExtensions == { <<".", "p", "n", "g">>, <<".", "j", "p", "g">>,
                     <<".", "j", "p", "e", "g">>, <<".", "g", "i", "f">> }
VideoExtensions == { <<".", "m", "p", "4">>, <<".", "a", "v", "i">>,
                     <<".", "m", "k", "v">> }
desired_extensions ==
    TextExtensions \cup ImageExtensions \cup VideoExtensions
        \cup { <<".", "m", "p", "3">> }

get_files_by_scan_mode(files, mode) ==
    IF mode = "text"
    THEN SelectSeq(files, LAMBDA f : EndsWith(Lower(f), <<".", "t", "x", "t">>)
                                        \/ EndsWith(Lower(f), <<".", "a", "s", "c">>))
    ELSE IF mode = "image"
    THEN SelectSeq(files, LAMBDA f : EndsWithAny(Lower(f), ImageExtensions))
    ELSE IF mode = "video"
    THEN SelectSeq(files, LAMBDA f : EndsWithAny(Lower(f), VideoExtensions))
    ELSE SelectSeq(files, LAMBDA f : EndsWithAny(f, desired_extensions))

ScanModes == {"text", "image", "video", "full"}

----------------------------------------------------------------------------
(* The exclusion filters: os.path of Windows (ntpath), fnmatch, and the    *)
(* three predicates of main.py                                             *)

\* os.path.sep and os.path.altsep
sep == "\\"
altsep == "/"

\* str.startswith(prefix)
StartsWith(str, prefix) ==
    /\ Len(str) >= Len(prefix)
    /\ SubSeq(str, 1, Len(prefix)) = prefix

\* "sub in str"
Contains(str, sub) ==
    \E i \in 0..(Len(str) - Len(sub)) : SubSeq(str, i + 1, i + Len(sub)) = sub

\* str.split(separator): the pieces between the occurrences of the separator.
RECURSIVE Split(_, _)
Split(str, separator) ==
    IF \E i \in 1..Len(str) : str[i] = separator
    THEN LET i == CHOOSE k \in 1..Len(str) :
                      str[k] = separator /\ \A j \in 1..(k - 1) : str[j] # separator
         IN  <<SubSeq(str, 1, i - 1)>> \o Split(SubSeq(str, i + 1, Len(str)), separator)
    ELSE <<str>>

\* separator.join(comps)
RECURSIVE SepJoin(_, _)
SepJoin(separator, comps) ==
    IF comps = <<>> THEN <<>>
    ELSE IF Len(comps) = 1 THEN comps[1]
    ELSE comps[1] \o <<separator>> \o SepJoin(separator, Tail(comps))

\* ntpath.splitdrive, for the paths with a drive letter or no drive: the
\* length of the drive.
DriveLen(str) == IF Len(str) >= 2 /\ str[2] = ":" THEN 2 ELSE 0

\* The loop of ntpath.normpath over the components: empty components and
\* "." are dropped, ".." removes the component before it.
RECURSIVE Collapse(_, _, _)
Collapse(comps, done, rooted) ==
    IF comps = <<>> THEN done
    ELSE LET c == Head(comps)
         IN  IF c = <<>> \/ c = <<".">>
             THEN Collapse(Tail(comps), done, rooted)
             ELSE IF c = <<".", ".">>
             THEN IF done # <<>> /\ done[Len(done)] # <<".", ".">>
                  THEN Collapse(Tail(comps), SubSeq(done, 1, Len(done) - 1), rooted)
                  ELSE IF done = <<>> /\ rooted
                  THEN Collapse(Tail(comps), done, rooted)
                  ELSE Collapse(Tail(comps), Append(done, c), rooted)
             ELSE Collapse(Tail(comps), Append(done, c), rooted)

\* os.path.normpath
normpath(path) ==
    LET p == [i \in 1..Len(path) |-> IF path[i] = altsep THEN sep ELSE path[i]]
        drive == SubSeq(p, 1, DriveLen(p))
        rest == SubSeq(p, DriveLen(p) + 1, Len(p))
        rooted == rest # <<>> /\ rest[1] = sep
        prefix == IF rooted THEN Append(drive, sep) ELSE drive
        comps == Collapse(Split(rest, sep), <<>>, rooted)
    IN  IF prefix = <<>> /\ comps = <<>> THEN <<".">>
        ELSE prefix \o SepJoin(sep, comps)

\* os.path.basename: what follows the drive and the last separator.
basename(path) ==
    LET rest == SubSeq(path, DriveLen(path) + 1, Len(path))
        cuts == { i \in 1..Len(rest) : rest[i] \in {sep, altsep} }
        last == IF cuts = {} THEN 0 ELSE CHOOSE i \in cuts : \A j \in cuts : j <= i
    IN  SubSeq(rest, last + 1, Len(rest))

\* fnmatch.translate: the index of the "]" that closes the character class
\* opened at pat[j], or 0 when the "[" is an ordinary character.
ClassEnd(pat, j) ==
    LET first == IF j + 1 <= Len(pat) /\ pat[j + 1] = "!" THEN j + 2 ELSE j + 1
        ends == { k \in (first + 1)..Len(pat) : pat[k] = "]" }
    IN  IF ends = {} THEN 0 ELSE CHOOSE k \in ends : \A m \in ends : k <= m

\* Whether the character belongs to the class pat[j..e], for classes without
\* ranges.
InClass(ch, pat, j, e) ==
    IF pat[j + 1] = "!"
    THEN \A k \in (j + 2)..(e - 1) : pat[k] # ch
    ELSE \E k \in (j + 1)..(e - 1) : pat[k] = ch

\* fnmatch.fnmatchcase(name, pat), from position i of the name and j of the
\* pattern: "*" matches any run of characters, "?" one character, "[...]"
\* one character of the class.
RECURSIVE MatchFrom(_, _, _, _)
MatchFrom(name, pat, i, j) ==
    IF j > Len(pat) THEN i > Len(name)
    ELSE IF pat[j] = "*"
    THEN \E k \in i..(Len(name) + 1) : MatchFrom(name, pat, k, j + 1)
    ELSE IF i > Len(name) THEN FALSE
    ELSE IF pat[j] = "?" THEN MatchFrom(name, pat, i + 1, j + 1)
    ELSE IF pat[j] = "[" /\ ClassEnd(pat, j) # 0
    THEN InClass(name[i], pat, j, ClassEnd(pat, j))
         /\ MatchFrom(name, pat, i + 1, ClassEnd(pat, j) + 1)
    ELSE name[i] = pat[j] /\ MatchFrom(name, pat, i + 1, j + 1)

fnmatchcase(name, pat) == MatchFrom(name, pat, 1, 1)

ignore_dirs ==
    << <<"C", ":", "\\", "W", "i", "n", "d", "o", "w", "s">>,
       <<"C", ":", "\\", "P", "r", "o", "g", "r", "a", "m", " ", "F", "i", "l", "e", "s">>,
       <<"C", ":", "\\", "P", "r", "o", "g", "r", "a", "m", " ", "F", "i", "l", "e", "s", " ", "(", "x", "8", "6", ")">>,
       <<"C", ":", "\\", "P", "r", "o", "g", "r", "a", "m", "D", "a", "t", "a">>,
       <<"C", ":", "\\", "$", "R", "e", "c", "y", "c", "l", "e", ".", "B", "i", "n">>,
       <<"C", ":", "\\", "m", "s", "y", "s", "6", "4">>,
       <<"C", ":", "\\", "v", "c", "p", "k", "g">> >>

\* Mutant of is_ignored_file: the prefixes are compared ignoring case.
is_ignored_file_AnyCase(file_path, file_type) ==
    LET file_path_lower == Lower(file_path)
    IN  \/ \E k \in 1..Len(ignore_dirs) :
               StartsWith(file_path_lower, Lower(ignore_dirs[k]))
        \/ Contains(file_path_lower, <<"a", "p", "p", "d", "a", "t", "a">>)
        \/ Contains(file_path_lower, <<"$", "r", "e", "c", "y", "c", "l", "e", ".", "b", "i", "n">>)

is_ignored_file(file_path, file_type) ==
    LET file_path_lower == Lower(file_path)
    IN  \/ \E k \in 1..Len(ignore_dirs) : StartsWith(file_path, ignore_dirs[k])
        \/ Contains(file_path_lower, <<"a", "p", "p", "d", "a", "t", "a">>)
        \/ Contains(file_path_lower, <<"$", "r", "e", "c", "y", "c", "l", "e", ".", "b", "i", "n">>)

\* Mutant of is_downloads: the word is searched without its separators.
is_downloads_AnyPlace(file_path) ==
    LET normalized == Lower(normpath(file_path))
    IN  Contains(normalized, <<"d", "o", "w", "n", "l", "o", "a", "d", "s">>)

is_downloads(file_path) ==
    LET normalized == Lower(normpath(file_path))
    IN  Contains(normalized, <<sep>> \o <<"d", "o", "w", "n", "l", "o", "a", "d", "s">> \o <<sep>>)

\* Mutant of has_skip_folder: the patterns are compared with the whole path.
has_skip_folder_WholePath(file_path, skip_patterns) ==
    \E k \in 1..Len(skip_patterns) :
        /\ skip_patterns[k] # <<>>
        /\ fnmatchcase(Lower(normpath(file_path)), Lower(skip_patterns[k]))

has_skip_folder(file_path, skip_patterns) ==
    LET parts == Split(normpath(file_path), sep)
    IN  \E i \in 2..Len(parts) : \E k \in 1..Len(skip_patterns) :
            /\ skip_patterns[k] # <<>>
            /\ fnmatchcase(Lower(parts[i]), Lower(skip_patterns[k]))

\* Mutant of apply_additional_filters: a path the walk returned twice is
\* recorded once.
apply_additional_filters_Merged(files, mode, dict) ==
    LET skip_patterns == GetOr(dict, "skip_folders", <<>>)
        Keep(f) ==
            /\ ~is_ignored_file(f, mode)
            /\ ~(GetOr(dict, "ignore_downloads", FALSE) /\ is_downloads(f))
            /\ ~(skip_patterns # <<>> /\ has_skip_folder(f, skip_patterns))
        kept == SelectSeq(files, Keep)
        first == { i \in 1..Len(kept) : \A j \in 1..(i - 1) : kept[j] # kept[i] }
    IN  [i \in 1..Cardinality(first) |->
            LET k == CHOOSE k \in first : Cardinality({ j \in first : j < k }) = i - 1
            IN  [path |-> kept[k], name |-> basename(kept[k]), type |-> mode]]

apply_additional_filters(files, mode, dict) ==
    LET skip_patterns == GetOr(dict, "skip_folders", <<>>)
        Keep(f) ==
            /\ ~is_ignored_file(f, mode)
            /\ ~(GetOr(dict, "ignore_downloads", FALSE) /\ is_downloads(f))
            /\ ~(skip_patterns # <<>> /\ has_skip_folder(f, skip_patterns))
        kept == SelectSeq(files, Keep)
    IN  [i \in 1..Len(kept) |->
            [path |-> kept[i], name |-> basename(kept[i]), type |-> mode]]

\* The file paths the filter is run on: a stem followed by an ending.
Stems == { <<"a">>, <<"a", ".", "b">> }
Endings ==
    desired_extensions
        \cup { <<".", "T", "X", "T">>, <<".", "A", "s", "c">>, <<".", "P", "N", "G">>,
               <<".", "J", "p", "e", "g">>, <<".", "M", "K", "V">>, <<".", "M", "P", "3">> }
        \cup { <<>>, <<"t", "x", "t">>, <<".", "t", "x", "t", "x">>,
               <<".", "d", "o", "c">>, <<".", "j", "p", "e">> }
FilePaths == { stem \o ending : stem \in Stems, ending \in Endings }
Folders ==
    {
      \* C:\Users\bob
      <<"C", ":", "\\", "U", "s", "e", "r", "s", "\\", "b", "o", "b">>,
      \* C:\Users\bob\Downloads
      <<"C", ":", "\\", "U", "s", "e", "r", "s", "\\", "b", "o", "b", "\\", "D", "o", "w", "n", "l", "o", "a", "d", "s">>,
      \* C:\Users\bob\downloads\sub
      <<"C", ":", "\\", "U", "s", "e", "r", "s", "\\", "b", "o", "b", "\\", "d", "o", "w", "n", "l", "o", "a", "d", "s", "\\", "s", "u", "b">>,
      \* C:\Users\bob\Downloadsx
      <<"C", ":", "\\", "U", "s", "e", "r", "s", "\\", "b", "o", "b", "\\", "D", "o", "w", "n", "l", "o", "a", "d", "s", "x">>,
      \* C:\Users\bob\MyDownloads
      <<"C", ":", "\\", "U", "s", "e", "r", "s", "\\", "b", "o", "b", "\\", "M", "y", "D", "o", "w", "n", "l", "o", "a", "d", "s">>,
      \* C:\Users\bob\AppData\Local
      <<"C", ":", "\\", "U", "s", "e", "r", "s", "\\", "b", "o", "b", "\\", "A", "p", "p", "D", "a", "t", "a", "\\", "L", "o", "c", "a", "l">>,
      \* C:\Users\bob\node_modules\b
      <<"C", ":", "\\", "U", "s", "e", "r", "s", "\\", "b", "o", "b", "\\", "n", "o", "d", "e", "_", "m", "o", "d", "u", "l", "e", "s", "\\", "b">>,
      \* C:\Users\bob\nodeModules
      <<"C", ":", "\\", "U", "s", "e", "r", "s", "\\", "b", "o", "b", "\\", "n", "o", "d", "e", "M", "o", "d", "u", "l", "e", "s">>,
      \* C:\Users\bob\Temp
      <<"C", ":", "\\", "U", "s", "e", "r", "s", "\\", "b", "o", "b", "\\", "T", "e", "m", "p">>,
      \* C:\Users\bob\Downloads\..\Docs
      <<"C", ":", "\\", "U", "s", "e", "r", "s", "\\", "b", "o", "b", "\\", "D", "o", "w", "n", "l", "o", "a", "d", "s", "\\", ".", ".", "\\", "D", "o", "c", "s">>,
      \* C:\Users\bob\vcpkg
      <<"C", ":", "\\", "U", "s", "e", "r", "s", "\\", "b", "o", "b", "\\", "v", "c", "p", "k", "g">>,
      \* C:\Windows
      <<"C", ":", "\\", "W", "i", "n", "d", "o", "w", "s">>,
      \* c:\windows
      <<"c", ":", "\\", "w", "i", "n", "d", "o", "w", "s">>,
      \* C:\WindowsOld
      <<"C", ":", "\\", "W", "i", "n", "d", "o", "w", "s", "O", "l", "d">>,
      \* D:\Windows
      <<"D", ":", "\\", "W", "i", "n", "d", "o", "w", "s">>,
      \* C:\Program Files
      <<"C", ":", "\\", "P", "r", "o", "g", "r", "a", "m", " ", "F", "i", "l", "e", "s">>,
      \* C:\Program Files (x86)
      <<"C", ":", "\\", "P", "r", "o", "g", "r", "a", "m", " ", "F", "i", "l", "e", "s", " ", "(", "x", "8", "6", ")">>,
      \* C:\ProgramData
      <<"C", ":", "\\", "P", "r", "o", "g", "r", "a", "m", "D", "a", "t", "a">>,
      \* C:\$Recycle.Bin
      <<"C", ":", "\\", "$", "R", "e", "c", "y", "c", "l", "e", ".", "B", "i", "n">>,
      \* D:\$RECYCLE.BIN
      <<"D", ":", "\\", "$", "R", "E", "C", "Y", "C", "L", "E", ".", "B", "I", "N">>,
      \* C:\msys64
      <<"C", ":", "\\", "m", "s", "y", "s", "6", "4">>,
      \* C:\vcpkg
      <<"C", ":", "\\", "v", "c", "p", "k", "g">>,
      \* /a/node_modules/b
      <<"/", "a", "/", "n", "o", "d", "e", "_", "m", "o", "d", "u", "l", "e", "s", "/", "b">>,
      \* /a/nodeModules
      <<"/", "a", "/", "n", "o", "d", "e", "M", "o", "d", "u", "l", "e", "s">>,
      \* Downloads
      <<"D", "o", "w", "n", "l", "o", "a", "d", "s">>,
      \* node_modules
      <<"n", "o", "d", "e", "_", "m", "o", "d", "u", "l", "e", "s">> }

FileNames ==
    {
      \* file.txt
      <<"f", "i", "l", "e", ".", "t", "x", "t">>,
      \* a.TXT
      <<"a", ".", "T", "X", "T">>,
      \* Downloads
      <<"D", "o", "w", "n", "l", "o", "a", "d", "s">>,
      \* appdata.png
      <<"a", "p", "p", "d", "a", "t", "a", ".", "p", "n", "g">>,
      \* node_modules
      <<"n", "o", "d", "e", "_", "m", "o", "d", "u", "l", "e", "s">> }

\* The paths the exclusion filters are run on: a file in a folder.
FolderPaths == { d \o <<sep>> \o n : d \in Folders, n \in FileNames }

\* The lists a walk returns to run_scraper.
FileLists ==
    UNION { [1..k -> FilePaths] : k \in 0..MaxFiles }
        \cup UNION { [1..k -> FolderPaths] : k \in 1..(MaxFiles - 1) }

\* The values of settings["skip_folders"].
SkipLists ==
    { <<>>,
      <<<<"N", "o", "d", "e", "_", "M", "o", "d", "u", "l", "e", "s">>>>,
      <<<<>>, <<"t", "e", "m", "p", "*">>>>,
      <<<<"?", "o", "w", "n", "l", "o", "a", "d", "s">>, <<"[", "a", "b", "]", "*">>>>,
      <<<<"C", ":", "\\", "U", "s", "e", "r", "s", "\\", "b", "o", "b", "\\", "T", "e", "m", "p">>>> }

\* The settings dictionary: load_settings returns it empty or with both
\* keys, and open_settings_menu adds "skip_folders" to it.
SettingsDicts ==
    { <<>> }
        \cup { [k \in {"skip_folders"} |-> l] : l \in SkipLists }
        \cup { [k \in {"ignore_downloads", "skip_folders"} |->
                   IF k = "ignore_downloads" THEN b ELSE l] :
               b \in BOOLEAN, l \in SkipLists }

\* The texts of the status label.
Text(words, n, mode) == [words |-> words, n |-> n, mode |-> mode]
Preparing == Text("Preparing scan directories...", 0, "")

\* scan_all_files has returned all_files to run_scraper; the walk is over
\* and the tree is not read again.
WalkOver(ids) ==
    /\ fs = [parent |-> [n \in Nodes |-> IF n = 1 THEN 0 ELSE 1],
             kind   |-> [n \in Nodes |-> IF n = 1 THEN "dir" ELSE "file"],
             target |-> [n \in Nodes |-> 0]]
    /\ paths = [s \in ids |-> << <<1>> >>]
    /\ dir_queue = [s \in ids |-> <<>>]
    /\ unfinished = [s \in ids |-> 0]
    /\ ready = [s \in ids |-> 0]
    /\ listing = [s \in ids |-> EmptyBag]
    /\ failed = [s \in ids |-> 0]
    /\ listed = [s \in ids |-> [n \in Nodes |-> IF n = 1 THEN 1 ELSE 0]]

\* One scan, of any category and with any settings, to which
\* scan_all_files has just returned a list; the status label shows the
\* first text of the scan.
FilterInit ==
    /\ WalkOver({1})
    /\ all_files \in [{1} -> FileLists]
    /\ pc = [s \in {1} |-> "returned"]
    /\ scan_mode \in [{1} -> ScanModes]
    /\ ScanLocals({1})
    /\ settings \in SettingsDicts
    /\ results_json = NoFile
    /\ ui_queue = <<>>
    /\ progress = 0
    /\ status = Preparing
    /\ backup_enabled = FALSE
    /\ backup_files = <<>>
    /\ NoBackup
    /\ NoFind
    /\ NoWindows
    /\ overlapped = FALSE

\* The callback root.after(0, ...) receives: the widget it changes and the
\* value it gives it.
Callback(widget, value) == [widget |-> widget, value |-> value]

\* safe_update_progress, safe_update_status and the last line of
\* run_scraper: root.after(0, callback), for each callback in turn.
after(s, callbacks) ==
    /\ ui_queue' = ui_queue \o callbacks
    /\ reported' = [reported EXCEPT ![s] = @ \o callbacks]

\* run_scraper, line 278: progress 25.
Progress25(s) ==
    /\ pc[s] = "returned"
    /\ after(s, <<Callback("progress", 25)>>)
    /\ pc' = [pc EXCEPT ![s] = "walked"]
    /\ UNCHANGED <<walkvars, scan_mode, files_to_scan, filtered_files, persisted,
                   settings, results_json, progress, status, backup_enabled,
                   backup_files, bkvars,
                   findvars, winvars, overlapped>>

\* Mutant of CategoryFilter: run_scraper without its line 278.
CategoryFilter_WithoutProgress25(s) ==
    /\ pc[s] \in {"returned", "walked"}
    /\ LET found == get_files_by_scan_mode(all_files[s], scan_mode[s])
       IN  /\ files_to_scan' = [files_to_scan EXCEPT ![s] = found]
           /\ after(s, <<Callback("status", Text("Found files for scan.",
                                                 Len(found), scan_mode[s])),
                         Callback("progress", 50)>>)
    /\ pc' = [pc EXCEPT ![s] = "filtered"]
    /\ UNCHANGED <<walkvars, scan_mode, filtered_files, persisted, settings,
                   results_json, progress, status, backup_enabled, backup_files,
                   bkvars,
                   findvars, winvars, overlapped>>

\* run_scraper, lines 281 to 283: the category filter, its status text and
\* progress 50.
CategoryFilter(s) ==
    /\ pc[s] = "walked"
    /\ LET found == get_files_by_scan_mode(all_files[s], scan_mode[s])
       IN  /\ files_to_scan' = [files_to_scan EXCEPT ![s] = found]
           /\ after(s, <<Callback("status", Text("Found files for scan.",
                                                 Len(found), scan_mode[s])),
                         Callback("progress", 50)>>)
    /\ pc' = [pc EXCEPT ![s] = "filtered"]
    /\ UNCHANGED <<walkvars, scan_mode, filtered_files, persisted, settings,
                   results_json, progress, status, backup_enabled, backup_files,
                   bkvars,
                   findvars, winvars, overlapped>>

\* run_scraper, line 286: the exclusion filters.
AdditionalFilters(s) ==
    /\ pc[s] = "filtered"
    /\ filtered_files' = [filtered_files EXCEPT
                             ![s] = apply_additional_filters(files_to_scan[s],
                                                             scan_mode[s], settings)]
    /\ pc' = [pc EXCEPT ![s] = "excluded"]
    /\ UNCHANGED <<walkvars, scan_mode, files_to_scan, reported, persisted,
                   settings, results_json, uivars, bkvars,
                   findvars, winvars, overlapped>>

FilterNext ==
    \/ \E s \in Scans : Progress25(s)
    \/ \E s \in Scans : CategoryFilter(s)
    \/ \E s \in Scans : AdditionalFilters(s)

FilterSpec == FilterInit /\ [][FilterNext]_vars

----------------------------------------------------------------------------
(* The application: the scans the user starts and the thread of the        *)
(* widgets.  The walk of a scan is one step.                               *)

\* The paths on the disk of this specification.
DiskPaths ==
    { <<"C", ":", "\\", "U", "s", "e", "r", "s", "\\", "b", "o", "b", "\\", "a", ".", "t", "x", "t">>,
      <<"C", ":", "\\", "U", "s", "e", "r", "s", "\\", "b", "o", "b", "\\", "D", "o", "w", "n", "l", "o", "a", "d", "s", "\\", "b", ".", "P", "N", "G">> }

\* The lists scan_all_files can return.
DiskLists == UNION { [1..k -> DiskPaths] : k \in 0..(MaxFiles - 1) }

\* main: the window is there and no scan button has been clicked.  The
\* locals of the walks are not followed.
AppInit ==
    /\ WalkOver(1..MaxScans)
    /\ all_files = [s \in 1..MaxScans |-> <<>>]
    /\ pc = [s \in 1..MaxScans |-> "idle"]
    /\ scan_mode = [s \in 1..MaxScans |-> ""]
    /\ ScanLocals(1..MaxScans)
    /\ settings \in { <<>>, [k \in {"ignore_downloads", "skip_folders"} |->
                                IF k = "ignore_downloads" THEN TRUE ELSE <<>>] }
    /\ results_json = NoFile
    /\ Widgets
    /\ NoBackup
    /\ NoFind
    /\ NoWindows
    /\ overlapped = FALSE

\* A click on a scan button: start_scan_thread starts a thread that runs
\* run_scraper.  The buttons stay active, so that any scan can start while
\* others run.
StartScan(s, mode) ==
    /\ pc[s] = "idle"
    /\ \A r \in 1..(s - 1) : pc[r] # "idle"
    /\ pc' = [pc EXCEPT ![s] = "start"]
    /\ scan_mode' = [scan_mode EXCEPT ![s] = mode]
    /\ overlapped' = (overlapped \/ \E r \in Scans \ {s} :
                                       pc[r] \notin {"idle", "complete", "save_failed"})
    /\ UNCHANGED <<walkvars, files_to_scan, filtered_files, reported, persisted,
                   settings, results_json, uivars, bkvars, findvars, winvars>>

\* run_scraper, lines 260 to 275: the first status text and the directories
\* to scan.
Prepare(s) ==
    /\ pc[s] = "start"
    /\ after(s, <<Callback("status", Preparing)>>)
    /\ pc' = [pc EXCEPT ![s] = "walking"]
    /\ UNCHANGED <<walkvars, scan_mode, files_to_scan, filtered_files, persisted,
                   settings, results_json, progress, status, backup_enabled,
                   backup_files, bkvars,
                   findvars, winvars, overlapped>>

\* run_scraper, line 277: scan_all_files returns a list.
ScanAllFiles(s) ==
    /\ pc[s] = "walking"
    /\ \E l \in DiskLists : all_files' = [all_files EXCEPT ![s] = l]
    /\ pc' = [pc EXCEPT ![s] = "returned"]
    /\ UNCHANGED <<fs, paths, dir_queue, unfinished, ready, listing, failed, listed,
                   scan_mode, files_to_scan, filtered_files, reported, persisted,
                   settings, results_json, uivars, bkvars,
                   findvars, winvars, overlapped>>

\* run_scraper, line 289: save_results writes the list.
Save(s) ==
    /\ pc[s] = "excluded"
    /\ results_json' = File(filtered_files[s])
    /\ persisted' = [persisted EXCEPT ![s] = File(filtered_files[s])]
    /\ pc' = [pc EXCEPT ![s] = "saved"]
    /\ UNCHANGED <<walkvars, scan_mode, files_to_scan, filtered_files, reported,
                   settings, uivars, bkvars,
                   findvars, winvars, overlapped>>

\* run_scraper, line 289: save_results raises, in open() (the file is as it
\* was) or in json.dump (the file is cut short).  Nothing catches the
\* exception: the thread ends.
SaveFails(s) ==
    /\ pc[s] = "excluded"
    /\ results_json' \in {results_json, Truncated}
    /\ pc' = [pc EXCEPT ![s] = "save_failed"]
    /\ UNCHANGED <<walkvars, scan_mode, files_to_scan, filtered_files, reported,
                   persisted, settings, uivars, bkvars,
                   findvars, winvars, overlapped>>

\* Mutant of Complete: run_scraper without its line 289.
Complete_WithoutSave(s) ==
    /\ pc[s] \in {"excluded", "saved"}
    /\ after(s, <<Callback("status", Text("scan complete!", 0, scan_mode[s])),
                  Callback("progress", 100),
                  Callback("backup", filtered_files[s])>>)
    /\ pc' = [pc EXCEPT ![s] = "complete"]
    /\ UNCHANGED <<walkvars, scan_mode, files_to_scan, filtered_files, persisted,
                   settings, results_json, progress, status, backup_enabled,
                   backup_files, bkvars,
                   findvars, winvars, overlapped>>

\* run_scraper, lines 291 to 300: the last status text, progress 100 and the
\* backup button.
Complete(s) ==
    /\ pc[s] = "saved"
    /\ after(s, <<Callback("status", Text("scan complete!", 0, scan_mode[s])),
                  Callback("progress", 100),
                  Callback("backup", filtered_files[s])>>)
    /\ pc' = [pc EXCEPT ![s] = "complete"]
    /\ UNCHANGED <<walkvars, scan_mode, files_to_scan, filtered_files, persisted,
                   settings, results_json, progress, status, backup_enabled,
                   backup_files, bkvars,
                   findvars, winvars, overlapped>>

\* The main loop runs the oldest callback: update_progress, update_status
\* or enable_backup_button.
RunCallback ==
    /\ ui_queue # <<>>
    /\ ui_queue' = Tail(ui_queue)
    /\ LET c == Head(ui_queue)
       IN  /\ progress' = IF c.widget = "progress" THEN c.value ELSE progress
           /\ status' = IF c.widget = "status" THEN c.value ELSE status
           /\ backup_enabled' = (c.widget = "backup" \/ backup_enabled)
           /\ backup_files' = IF c.widget = "backup" THEN c.value ELSE backup_files
    /\ UNCHANGED <<walkvars, scanvars, bkvars,
                   findvars, winvars, overlapped>>

AppNext ==
    \/ \E s \in Scans : \E mode \in ScanModes : StartScan(s, mode)
    \/ \E s \in Scans : Prepare(s)
    \/ \E s \in Scans : ScanAllFiles(s)
    \/ \E s \in Scans : Progress25(s)
    \/ \E s \in Scans : CategoryFilter(s)
    \/ \E s \in Scans : AdditionalFilters(s)
    \/ \E s \in Scans : Save(s)
    \/ \E s \in Scans : SaveFails(s)
    \/ \E s \in Scans : Complete(s)
    \/ RunCallback

AppSpec == AppInit /\ [][AppNext]_vars

----------------------------------------------------------------------------
(* The backup: backup_files and perform_backup, run by the thread of the   *)
(* widgets when the user clicks the backup button                          *)

\* The callbacks of a scan that ran to its end.
ReportsOfScan(mode, found, kept) ==
    << Callback("status", Preparing),
       Callback("progress", 25),
       Callback("status", Text("Found files for scan.", Len(found), mode)),
       Callback("progress", 50),
       Callback("status", Text("scan complete!", 0, mode)),
       Callback("progress", 100),
       Callback("backup", kept) >>

\* The paths on the disk of this specification: those of the application,
\* and a file of the same name as another, in another folder.
BackupPaths ==
    DiskPaths \cup
    { <<"C", ":", "\\", "U", "s", "e", "r", "s", "\\", "b", "o", "b", "\\", "D", "o", "w", "n", "l", "o", "a", "d", "s", "\\", "a", ".", "t", "x", "t">> }

\* perform_backup, lines 291 to 293: the directory of the backup.
backup_dir == <<"b", "a", "c", "k", "u", "p", "s", "\\", "b", "a", "c", "k", "u", "p", "_", "1">>

\* ntpath.join(a, b): b alone when it has a drive or starts with a
\* separator, else a and b with a separator between them.
path_join(a, b) ==
    IF b # <<>> /\ (b[1] \in {sep, altsep} \/ DriveLen(b) > 0) THEN b
    ELSE IF a = <<>> \/ a[Len(a)] \in {sep, altsep, ":"} THEN a \o b
    ELSE a \o <<sep>> \o b

\* str.lstrip(os.sep)
RECURSIVE lstrip(_, _)
lstrip(str, ch) ==
    IF str # <<>> /\ str[1] = ch THEN lstrip(Tail(str), ch) ELSE str

\* perform_backup, lines 331 to 347: the directory of the category.
category_dir(file_info) ==
    LET file_lower == Lower(file_info.path)
    IN  IF file_info.type = "full"
        THEN IF EndsWithAny(file_lower, {<<".", "t", "x", "t">>, <<".", "a", "s", "c">>})
             THEN <<"t", "e", "x", "t", "_", "f", "i", "l", "e", "s">>
             ELSE IF EndsWithAny(file_lower, {<<".", "p", "n", "g">>, <<".", "j", "p", "g">>,
                                              <<".", "j", "p", "e", "g">>, <<".", "g", "i", "f">>})
             THEN <<"i", "m", "a", "g", "e", "s">>
             ELSE IF EndsWithAny(file_lower, {<<".", "m", "p", "4">>, <<".", "a", "v", "i">>,
                                              <<".", "m", "k", "v">>})
             THEN <<"v", "i", "d", "e", "o", "s">>
             ELSE IF EndsWith(file_lower, <<".", "m", "p", "3">>)
             THEN <<"m", "u", "s", "i", "c">>
             ELSE <<"o", "t", "h", "e", "r">>
        ELSE IF file_info.type = "text" THEN <<"t", "e", "x", "t", "_", "f", "i", "l", "e", "s">>
        ELSE IF file_info.type = "image" THEN <<"i", "m", "a", "g", "e", "s">>
        ELSE IF file_info.type = "video" THEN <<"v", "i", "d", "e", "o", "s">>
        ELSE <<"o", "t", "h", "e", "r">>

\* perform_backup, lines 329 to 351: the path the file is copied to.
dst_path(file_info, categories) ==
    IF categories
    THEN path_join(path_join(backup_dir, category_dir(file_info)),
                   basename(file_info.path))
    ELSE LET rest == SubSeq(file_info.path, DriveLen(file_info.path) + 1,
                            Len(file_info.path))
         IN  path_join(backup_dir, lstrip(rest, sep))

\* One scan has completed and its callbacks have run: the backup button is
\* bound to the list of the scan.
BackupInit ==
    /\ WalkOver({1})
    /\ all_files \in [{1} -> UNION { [1..k -> BackupPaths] : k \in 0..MaxFiles }]
    /\ scan_mode \in [{1} -> ScanModes]
    /\ pc = [s \in {1} |-> "complete"]
    /\ settings = <<>>
    /\ files_to_scan = [s \in {1} |-> get_files_by_scan_mode(all_files[s], scan_mode[s])]
    /\ filtered_files =
           [s \in {1} |-> apply_additional_filters(files_to_scan[s], scan_mode[s],
                                                   settings)]
    /\ reported = [s \in {1} |-> ReportsOfScan(scan_mode[s], files_to_scan[s],
                                               filtered_files[s])]
    /\ persisted = [s \in {1} |-> File(filtered_files[s])]
    /\ results_json = File(filtered_files[1])
    /\ ui_queue = <<>>
    /\ progress = 100
    /\ status = Text("scan complete!", 0, scan_mode[1])
    /\ backup_enabled = TRUE
    /\ backup_files = filtered_files[1]
    /\ NoBackup
    /\ NoFind
    /\ NoWindows
    /\ overlapped = FALSE

\* backup_files and start_backup: the user clicks the backup button, chooses
\* a style and starts the backup.  With an empty list backup_files shows a
\* warning and returns.
StartBackup(categories) ==
    /\ bk_pc = "idle"
    /\ backup_enabled
    /\ backup_files # <<>>
    /\ files_to_backup' = backup_files
    /\ use_categories' = categories
    /\ bk_pc' = "makedirs"
    /\ UNCHANGED <<walkvars, scanvars, uivars, bk_next, copied, bk_log, bk_shown,
                   findvars, winvars, overlapped>>

\* perform_backup, lines 290 to 324: the backup directory and the progress
\* window are created and the loop starts.
MakeBackupDir ==
    /\ bk_pc = "makedirs"
    /\ bk_pc' = "loop"
    /\ bk_next' = 1
    /\ copied' = 0
    /\ UNCHANGED <<walkvars, scanvars, uivars, files_to_backup, use_categories,
                   bk_log, bk_shown,
                   findvars, winvars, overlapped>>

\* perform_backup, lines 295 to 299: os.makedirs(backup_dir) raises; an error
\* box is shown and perform_backup returns.
BackupDirFails ==
    /\ bk_pc = "makedirs"
    /\ bk_pc' = "no directory"
    /\ UNCHANGED <<walkvars, scanvars, uivars, files_to_backup, use_categories,
                   bk_next, copied, bk_log, bk_shown,
                   findvars, winvars, overlapped>>

\* One iteration of the loop in which nothing raises before "copied += 1":
\* the file is copied.  An exception of the lines that follow, which show
\* the count, is caught as well and changes nothing.
CopyFile ==
    /\ bk_pc = "loop"
    /\ bk_next <= Len(files_to_backup)
    /\ bk_log' = Append(bk_log, [path |-> files_to_backup[bk_next].path, ok |-> TRUE,
                               dst |-> dst_path(files_to_backup[bk_next], use_categories)])
    /\ copied' = copied + 1
    /\ bk_next' = bk_next + 1
    /\ UNCHANGED <<walkvars, scanvars, uivars, bk_pc, files_to_backup,
                   use_categories, bk_shown,
                   findvars, winvars, overlapped>>

\* Mutant of CopyFails: the loop without its try block.
CopyFails_EndsLoop ==
    /\ bk_pc = "loop"
    /\ bk_next <= Len(files_to_backup)
    /\ bk_log' = Append(bk_log, [path |-> files_to_backup[bk_next].path, ok |-> FALSE,
                               dst |-> dst_path(files_to_backup[bk_next], use_categories)])
    /\ bk_pc' = "raised"
    /\ UNCHANGED <<walkvars, scanvars, uivars, files_to_backup, use_categories,
                   bk_next, copied, bk_shown,
                   findvars, winvars, overlapped>>

\* One iteration of the loop in which os.makedirs or shutil.copy2 raises:
\* "except Exception" prints the error and the loop goes on.
CopyFails ==
    /\ bk_pc = "loop"
    /\ bk_next <= Len(files_to_backup)
    /\ bk_log' = Append(bk_log, [path |-> files_to_backup[bk_next].path, ok |-> FALSE,
                               dst |-> dst_path(files_to_backup[bk_next], use_categories)])
    /\ bk_next' = bk_next + 1
    /\ UNCHANGED <<walkvars, scanvars, uivars, bk_pc, files_to_backup,
                   use_categories, copied, bk_shown,
                   findvars, winvars, overlapped>>

\* The end of the loop: the message box shows the counter.
ShowCount ==
    /\ bk_pc = "loop"
    /\ bk_next > Len(files_to_backup)
    /\ bk_shown' = copied
    /\ bk_pc' = "done"
    /\ UNCHANGED <<walkvars, scanvars, uivars, files_to_backup, use_categories,
                   bk_next, copied, bk_log,
                   findvars, winvars, overlapped>>

BackupNext ==
    \/ \E categories \in BOOLEAN : StartBackup(categories)
    \/ MakeBackupDir
    \/ BackupDirFails
    \/ CopyFile
    \/ CopyFails
    \/ ShowCount

BackupSpec == BackupInit /\ [][BackupNext]_vars

----------------------------------------------------------------------------
(* find_files: the walk that records the files whose name matches a        *)
(* pattern.  The caller calls scan_all_files (scan 1), then find_files     *)
(* (scan 2) with the same roots.                                           *)

\* os.path.normcase of Windows: lower case, and "/" replaced by "\".
normcase(str) ==
    LET low == Lower(str)
    IN  [i \in 1..Len(str) |-> IF low[i] = altsep THEN sep ELSE low[i]]

\* fnmatch.fnmatch(name, pat): both are normalized, then compared.
fnmatch(name, pat) == fnmatchcase(normcase(name), normcase(pat))

\* DirEntry.name of the entry: a letter for each node, and an ending
\* written in lower or in upper case.
EntryName(entry) ==
    LET n == entry[Len(entry)]
    IN  <<LowerCase[n]>> \o (IF n % 2 = 1 THEN <<".", "t", "x", "t">>
                                          ELSE <<".", "T", "X", "T">>)

\* The patterns find_files is called with: *.TXT and c*.
Patterns == { <<"*", ".", "T", "X", "T">>, <<"c", "*">> }

\* What the callback does when it is called: it returns, or it raises a
\* PermissionError or another exception.
Outcomes == {"none", "perm", "os"}

\* scan_all_files is running on the roots; find_files has not been called.
\* No listing fails for an I/O error or a symbolic link: the files
\* scan_all_files returns are the same on every run.
FindInit ==
    /\ fs \in FileSystems
    /\ \A n \in Nodes : fs.kind[n] \in {"dir", "file", "denied"}
    /\ paths \in [1..2 -> RootLists(fs)]
    /\ paths[1] = paths[2]
    /\ Faults(fs, paths[1]) <= MaxFaults
    /\ dir_queue = [s \in 1..2 |-> IF s = 1 THEN paths[s] ELSE <<>>]
    /\ unfinished = [s \in 1..2 |-> IF s = 1 THEN Len(paths[s]) ELSE 0]
    /\ all_files = [s \in 1..2 |-> <<>>]
    /\ ready = [s \in 1..2 |-> IF s = 1 THEN worker_count ELSE 0]
    /\ listing = [s \in 1..2 |-> EmptyBag]
    /\ failed = [s \in 1..2 |-> 0]
    /\ listed = [s \in 1..2 |-> [n \in Nodes |-> 0]]
    /\ pc = [s \in 1..2 |-> IF s = 1 THEN "join" ELSE "idle"]
    /\ scan_mode = [s \in 1..2 |-> "full"]
    /\ ScanLocals(1..2)
    /\ settings = <<>>
    /\ results_json = NoFile
    /\ Widgets
    /\ NoBackup
    /\ NoFind
    /\ NoWindows
    /\ overlapped = FALSE

\* find_files, lines 48 to 85: the call, when scan_all_files has returned.
\* The queue is seeded with the roots and the tasks are submitted.
CallFindFiles(pat, callback) ==
    /\ pc[1] = "returned"
    /\ pc[2] = "idle"
    /\ pattern' = pat
    /\ file_found_callback' = callback
    /\ dir_queue' = [dir_queue EXCEPT ![2] = paths[2]]
    /\ unfinished' = [unfinished EXCEPT ![2] = Len(paths[2])]
    /\ ready' = [ready EXCEPT ![2] = worker_count]
    /\ pc' = [pc EXCEPT ![2] = "join"]
    /\ UNCHANGED <<fs, paths, all_files, listing, failed, listed, scan_mode,
                   files_to_scan, filtered_files, reported, persisted, settings,
                   results_json, uivars, bkvars, calling, called, winvars,
                   overlapped>>

\* Mutant of FindEntry: the pattern is tested before the kind of the entry,
\* so that a directory is queued only when its name matches.
FindEntry_PatternBeforeKind(s) ==
    \E l \in BagToSet(listing[s]) : \E e \in l.todo :
        LET rest == IF StatError(e)
                    THEN [l EXCEPT !.todo = {}, !.err = "os"]
                    ELSE [l EXCEPT !.todo = @ \ {e}]
        IN  /\ IF ~StatError(e) /\ IsFile(e) /\ fnmatch(EntryName(e), pattern)
               THEN /\ all_files' = [all_files EXCEPT ![s] = Record(@, e)]
                    /\ IF file_found_callback = "none"
                       THEN /\ listing' = [listing EXCEPT
                                   ![s] = (@ (-) SetToBag({l})) (+) SetToBag({rest})]
                            /\ UNCHANGED calling
                       ELSE /\ listing' = [listing EXCEPT ![s] = @ (-) SetToBag({l})]
                            /\ calling' = calling (+) SetToBag({[listing |-> rest,
                                                                 entry |-> e]})
                    /\ UNCHANGED <<dir_queue, unfinished>>
               ELSE /\ listing' = [listing EXCEPT
                           ![s] = (@ (-) SetToBag({l})) (+) SetToBag({rest})]
                    /\ IF ~StatError(e) /\ IsDir(e) /\ fnmatch(EntryName(e), pattern)
                       THEN /\ dir_queue' = [dir_queue EXCEPT ![s] = Append(@, e)]
                            /\ unfinished' = [unfinished EXCEPT ![s] = @ + 1]
                       ELSE UNCHANGED <<dir_queue, unfinished>>
                    /\ UNCHANGED <<all_files, calling>>
            /\ UNCHANGED <<fs, paths, ready, failed, listed, scanvars, uivars,
                           bkvars, pattern, file_found_callback, called, winvars,
                           overlapped>>

\* find_files, lines 67 to 74: one iteration of "for entry in
\* os.scandir(current_dir)", up to the end of the with block.  A file whose
\* name matches is appended to matches (all_files[s]); with a callback, the
\* worker goes on to call it.
FindEntry(s) ==
    \E l \in BagToSet(listing[s]) : \E e \in l.todo :
        LET rest == IF StatError(e)
                    THEN [l EXCEPT !.todo = {}, !.err = "os"]
                    ELSE [l EXCEPT !.todo = @ \ {e}]
        IN  /\ IF ~StatError(e) /\ IsFile(e) /\ fnmatch(EntryName(e), pattern)
               THEN /\ all_files' = [all_files EXCEPT ![s] = Record(@, e)]
                    /\ IF file_found_callback = "none"
                       THEN /\ listing' = [listing EXCEPT
                                   ![s] = (@ (-) SetToBag({l})) (+) SetToBag({rest})]
                            /\ UNCHANGED calling
                       ELSE /\ listing' = [listing EXCEPT ![s] = @ (-) SetToBag({l})]
                            /\ calling' = calling (+) SetToBag({[listing |-> rest,
                                                                 entry |-> e]})
                    /\ UNCHANGED <<dir_queue, unfinished>>
               ELSE /\ listing' = [listing EXCEPT
                           ![s] = (@ (-) SetToBag({l})) (+) SetToBag({rest})]
                    /\ IF ~StatError(e) /\ IsDir(e)
                       THEN /\ dir_queue' = [dir_queue EXCEPT ![s] = Append(@, e)]
                            /\ unfinished' = [unfinished EXCEPT ![s] = @ + 1]
                       ELSE UNCHANGED <<dir_queue, unfinished>>
                    /\ UNCHANGED <<all_files, calling>>
            /\ UNCHANGED <<fs, paths, ready, failed, listed, scanvars, uivars,
                           bkvars, pattern, file_found_callback, called, winvars,
                           overlapped>>

\* find_files, lines 71 and 72: file_found_callback(entry.path).  An
\* exception of the callback ends the listing, as an exception of
\* os.scandir does.
FindCall(s) ==
    \E c \in BagToSet(calling) : \E outcome \in Outcomes :
        /\ calling' = calling (-) SetToBag({c})
        /\ called' = Append(called, [path |-> c.entry, outcome |-> outcome])
        /\ listing' = [listing EXCEPT
               ![s] = @ (+) SetToBag({ IF outcome = "none" THEN c.listing
                                       ELSE [c.listing EXCEPT !.todo = {},
                                                              !.err = outcome] })]
        /\ UNCHANGED <<fs, paths, dir_queue, unfinished, all_files, ready, failed,
                       listed, scanvars, uivars, bkvars, pattern,
                       file_found_callback, winvars, overlapped>>

\* The workers of find_files take and end their listings as the workers of
\* scan_all_files do; only the loop over the entries differs.
FindNext ==
    \/ \E s \in Scans : Get(s)
    \/ \E s \in Scans : Exit(s)
    \/ \E s \in Scans : TaskDone(s)
    \/ \E s \in Scans : Join(s)
    \/ \E s \in Scans : Return(s)
    \/ Entry(1)
    \/ \E pat \in Patterns : \E callback \in {"none", "given"} :
           CallFindFiles(pat, callback)
    \/ FindEntry(2)
    \/ FindCall(2)

FindSpec == FindInit /\ [][FindNext]_vars

----------------------------------------------------------------------------
(* The settings: the settings windows, the block windows and the thread of *)
(* initial_index, with one scan                                            *)

\* dict[key] = value
Put(dict, key, value) ==
    [k \in DOMAIN dict \cup {key} |-> IF k = key THEN value ELSE dict[k]]

\* str.strip(): without the spaces at its ends.
RECURSIVE strip(_)
strip(str) ==
    IF str # <<>> /\ str[1] = " " THEN strip(Tail(str))
    ELSE IF str # <<>> /\ str[Len(str)] = " " THEN strip(SubSeq(str, 1, Len(str) - 1))
    ELSE str

\* The characters of the paths and patterns, in the order of their codes.
Ascii ==
    <<" ", "$", "(", ")", "*", ".", "/", "0", "1", "2", "3", "4", "5", "6", "7",
      "8", "9", ":", "?">> \o UpperCase \o <<"[", "\\", "]", "_">> \o LowerCase
Code == [c \in { Ascii[k] : k \in 1..Len(Ascii) } |->
            CHOOSE k \in 1..Len(Ascii) : Ascii[k] = c]

\* a < b for two strings
Before(a, b) ==
    \E i \in 1..(Len(b)) :
        /\ \A j \in 1..(i - 1) : j <= Len(a) /\ a[j] = b[j]
        /\ (i > Len(a) \/ Code[a[i]] < Code[b[i]])

\* sorted(), of strings that differ
RECURSIVE sorted(_)
sorted(strs) ==
    IF strs = {} THEN <<>>
    ELSE LET least == CHOOSE x \in strs : \A y \in strs \ {x} : Before(x, y)
         IN  <<least>> \o sorted(strs \ {least})

\* os.path.dirname: the path up to its last separator, without the
\* separators that end it unless nothing else follows the drive.
RECURSIVE rstrip_seps(_)
rstrip_seps(str) ==
    IF str # <<>> /\ str[Len(str)] \in {sep, altsep}
    THEN rstrip_seps(SubSeq(str, 1, Len(str) - 1))
    ELSE str
dirname(path) ==
    LET drive == SubSeq(path, 1, DriveLen(path))
        rest == SubSeq(path, DriveLen(path) + 1, Len(path))
        cuts == { i \in 1..Len(rest) : rest[i] \in {sep, altsep} }
        last == IF cuts = {} THEN 0 ELSE CHOOSE i \in cuts : \A j \in cuts : j <= i
        head == SubSeq(rest, 1, last)
    IN  drive \o (IF rstrip_seps(head) = <<>> THEN head ELSE rstrip_seps(head))

\* The directory the program runs in.
cwd == <<"C", ":", "\\", "a", "p", "p">>

\* os.path.abspath and os.path.isabs
abspath(path) == normpath(path_join(cwd, path))
isabs(path) ==
    Len(path) > DriveLen(path) /\ path[DriveLen(path) + 1] \in {sep, altsep}

\* open_block_folders_window.is_subblocked
is_subblocked(candidate, blocked_list) ==
    LET candidate_abs == abspath(candidate)
        parts == Split(normpath(candidate_abs), sep)
    IN  \E k \in 1..Len(blocked_list) :
            LET b == blocked_list[k]
            IN  IF isabs(b)
                THEN \/ candidate_abs = abspath(b)
                     \/ StartsWith(candidate_abs, Append(abspath(b), sep))
                ELSE \E i \in 1..Len(parts) : fnmatchcase(parts[i], b)

\* The files initial_index finds: those of the disk.
IndexFiles == sorted(DiskPaths)

\* What the user types in the entry of a settings window.
EntryTexts == { <<" ">>, <<"b", "o", "b">>, <<" ", "b", "o", "b", " ">> }

\* main: the window is there, initial_index has not stored the folders, no
\* settings window is open and no scan button has been clicked.
SettingsInit ==
    /\ WalkOver({1})
    /\ all_files = [s \in {1} |-> <<>>]
    /\ pc = [s \in {1} |-> "idle"]
    /\ scan_mode = [s \in {1} |-> ""]
    /\ ScanLocals({1})
    /\ settings \in { <<>>, [k \in {"ignore_downloads", "skip_folders"} |->
                                IF k = "ignore_downloads" THEN FALSE ELSE <<>>] }
    /\ results_json = NoFile
    /\ Widgets
    /\ NoBackup
    /\ NoFind
    /\ NoWindows
    /\ overlapped = FALSE

\* initial_index, lines 316 to 321: the folders of the files found are
\* stored in the settings.
InitialIndex ==
    /\ "indexed_folders" \notin DOMAIN settings
    /\ settings' = Put(settings, "indexed_folders",
                       sorted({ dirname(IndexFiles[i]) : i \in 1..Len(IndexFiles) }))
    /\ UNCHANGED <<walkvars, pc, scan_mode, files_to_scan, filtered_files, reported,
                   persisted, results_json, uivars, bkvars, findvars, winvars,
                   overlapped>>

\* open_settings_menu: a settings window opens, the first of those that are
\* not open; its list box shows the patterns of the settings.
OpenSettings(w) ==
    /\ ~skip_listbox[w].open
    /\ \A v \in 1..(w - 1) : skip_listbox[v].open
    /\ LET skip_folders == GetOr(settings, "skip_folders", <<>>)
       IN  /\ settings' = Put(settings, "skip_folders", skip_folders)
           /\ skip_listbox' = [skip_listbox EXCEPT ![w] = Showing(skip_folders)]
    /\ UNCHANGED <<walkvars, pc, scan_mode, files_to_scan, filtered_files, reported,
                   persisted, results_json, uivars, bkvars, findvars,
                   folders_listbox, blocked, overlapped>>

\* The Close button of a settings window.
CloseSettings(w) ==
    /\ skip_listbox[w].open
    /\ skip_listbox' = [skip_listbox EXCEPT ![w] = Closed]
    /\ UNCHANGED <<walkvars, scanvars, uivars, bkvars, findvars, folders_listbox,
                   blocked, overlapped>>

\* add_skip: the Add button of a settings window, with a text in its entry
\* that adds a pattern.
add_skip(w, text) ==
    LET pat == strip(text)
    IN  /\ skip_listbox[w].open
        /\ pat # <<>>
        /\ pat \notin Range(settings["skip_folders"])
        /\ Len(settings["skip_folders"]) < MaxPatterns
        /\ Len(skip_listbox[w].items) < MaxPatterns
        /\ settings' = [settings EXCEPT !["skip_folders"] = Append(@, pat)]
        /\ skip_listbox' = [skip_listbox EXCEPT ![w].items = Append(@, pat)]
        /\ UNCHANGED <<walkvars, pc, scan_mode, files_to_scan, filtered_files,
                       reported, persisted, results_json, uivars, bkvars, findvars,
                       folders_listbox, blocked, overlapped>>

\* remove_skip: the Remove Selected button of a settings window, with an
\* item of its list box selected.  The item of the same index is deleted
\* from the patterns of the settings and the list box is filled again; when
\* the settings hold no pattern of that index, del raises IndexError and
\* the handler ends there.
remove_skip(w, index) ==
    /\ skip_listbox[w].open
    /\ index \in 1..Len(skip_listbox[w].items)
    /\ LET skip_folders == settings["skip_folders"]
           rest == [k \in 1..(Len(skip_folders) - 1) |->
                       IF k < index THEN skip_folders[k] ELSE skip_folders[k + 1]]
       IN  IF index <= Len(skip_folders)
           THEN /\ settings' = [settings EXCEPT !["skip_folders"] = rest]
                /\ skip_listbox' = [skip_listbox EXCEPT ![w].items = rest]
                /\ blocked' = blocked \ {skip_folders[index]}
           ELSE UNCHANGED <<settings, skip_listbox, blocked>>
    /\ UNCHANGED <<walkvars, pc, scan_mode, files_to_scan, filtered_files, reported,
                   persisted, results_json, uivars, bkvars, findvars,
                   folders_listbox, overlapped>>

\* open_block_folders_window: the button of a settings window opens a block
\* window; its list box shows the indexed folders that are not blocked.
OpenBlockFolders(w) ==
    /\ \E v \in Windows : skip_listbox[v].open
    /\ ~folders_listbox[w].open
    /\ \A v \in 1..(w - 1) : folders_listbox[v].open
    /\ LET indexed == GetOr(settings, "indexed_folders", <<>>)
           blocked_list == GetOr(settings, "skip_folders", <<>>)
           filtered_folders == { f \in Range(indexed) : ~is_subblocked(f, blocked_list) }
       IN  folders_listbox' = [folders_listbox EXCEPT
                                  ![w] = Showing(sorted(filtered_folders))]
    /\ UNCHANGED <<walkvars, scanvars, uivars, bkvars, findvars, skip_listbox,
                   blocked, overlapped>>

\* block_selected: the Block Selected button of a block window, with some
\* folders of its list box selected.  Each folder that is not among the
\* patterns of the settings is appended to them, and the window closes.
block_selected(w, sel) ==
    /\ folders_listbox[w].open
    /\ sel \subseteq 1..Len(folders_listbox[w].items)
    /\ LET folders == { folders_listbox[w].items[i] : i \in sel }
           skip_folders == settings["skip_folders"]
           added == SelectSeq(folders_listbox[w].items,
                              LAMBDA f : f \in folders /\ f \notin Range(skip_folders))
       IN  /\ Len(skip_folders) + Len(added) <= MaxPatterns
           /\ settings' = [settings EXCEPT !["skip_folders"] = @ \o added]
           /\ blocked' = IF pc[1] = "idle" THEN blocked \cup folders ELSE blocked
    /\ folders_listbox' = [folders_listbox EXCEPT ![w] = Closed]
    /\ UNCHANGED <<walkvars, pc, scan_mode, files_to_scan, filtered_files, reported,
                   persisted, results_json, uivars, bkvars, findvars, skip_listbox,
                   overlapped>>

SettingsNext ==
    \/ InitialIndex
    \/ \E w \in Windows : OpenSettings(w)
    \/ \E w \in Windows : CloseSettings(w)
    \/ \E w \in Windows : \E text \in EntryTexts : add_skip(w, text)
    \/ \E w \in Windows : \E index \in 1..MaxPatterns : remove_skip(w, index)
    \/ \E w \in BlockWindows : OpenBlockFolders(w)
    \/ \E w \in BlockWindows : \E sel \in SUBSET (1..MaxPatterns) : block_selected(w, sel)
    \/ \E s \in Scans : \E mode \in ScanModes : StartScan(s, mode)
    \/ \E s \in Scans : Prepare(s)
    \/ \E s \in Scans : ScanAllFiles(s)
    \/ \E s \in Scans : Progress25(s)
    \/ \E s \in Scans : CategoryFilter(s)
    \/ \E s \in Scans : AdditionalFilters(s)

SettingsSpec == SettingsInit /\ [][SettingsNext]_vars

----------------------------------------------------------------------------
(* Claims about find_files *)

\* Whether the name of the file matches the pattern find_files was given.
Matches(path) == fnmatch(EntryName(path), pattern)

\* The paths the callback was called with.
CalledPaths == [i \in 1..Len(called) |-> called[i].path]

\* No call of the callback has raised.
NoCallbackRaised == \A i \in 1..Len(called) : called[i].outcome = "none"

\* The number of workers that have recorded the path and not yet called the
\* callback for it.
PendingCalls(path) ==
    LET waiting == { c \in BagToSet(calling) : c.entry = path }
    IN  BagCardinality([c \in waiting |-> calling[c]])

----------------------------------------------------------------------------
(* Claims about the category filter *)

\* The extension of a path: what follows its last dot, the dot included.
LastDot(str) ==
    IF \E i \in 1..Len(str) : str[i] = "."
    THEN CHOOSE i \in 1..Len(str) :
             str[i] = "." /\ \A j \in (i + 1)..Len(str) : str[j] # "."
    ELSE 0
Extension(str) ==
    IF LastDot(str) = 0 THEN <<>> ELSE SubSeq(str, LastDot(str), Len(str))

AllowSet(mode) ==
    CASE mode = "text"  -> TextExtensions
      [] mode = "image" -> ImageExtensions
      [] mode = "video" -> VideoExtensions
      [] mode = "full"  -> TextExtensions \cup ImageExtensions \cup VideoExtensions
                               \cup { <<".", "m", "p", "3">> }

\* C9: for every category, the filter retains a path if and only if its
\* extension, lower-cased, belongs to the allow-set of the category.
C9_RetainedIffExtensionAllowed ==
    \A s \in Scans :
        pc[s] = "filtered" =>
            \A i \in 1..Len(all_files[s]) :
                (all_files[s][i] \in Range(files_to_scan[s]))
                    <=> (Lower(Extension(all_files[s][i])) \in AllowSet(scan_mode[s]))

\* C10: whatever a text, image or video scan retains of a list of files, the
\* full scan of the same list retains too.
C10_FullContainsEveryCategory ==
    \A s \in Scans :
        (pc[s] = "filtered" /\ scan_mode[s] = "full") =>
            \A m \in {"text", "image", "video"} :
                Range(get_files_by_scan_mode(all_files[s], m))
                    \subseteq Range(files_to_scan[s])

----------------------------------------------------------------------------
(* Claims about the exclusion filters *)

\* The paths of the scan that the exclusion filters dropped or kept.
Kept(s) == { filtered_files[s][i].path : i \in 1..Len(filtered_files[s]) }
Dropped(s) == Range(files_to_scan[s]) \ Kept(s)

\* The components of the normalized path, the drive (with what follows it up
\* to the first separator) or the empty root first.
Parts(path) == Split(normpath(path), sep)

\* ntpath.isabs: a separator follows the drive.
IsAbsolute(path) ==
    LET p == normpath(path)
    IN  Len(p) > DriveLen(p) /\ p[DriveLen(p) + 1] = sep

\* The folder and file names of the path: its components without the drive
\* and the root.
Segments(path) ==
    LET p == normpath(path)
        rest == SubSeq(p, DriveLen(p) + 1, Len(p))
    IN  IF rest = <<>> THEN <<>>
        ELSE IF rest[1] = sep THEN Split(Tail(rest), sep)
        ELSE Split(rest, sep)

SystemPrefixes ==
    { <<"C", ":", "\\", "W", "i", "n", "d", "o", "w", "s">>,
      <<"C", ":", "\\", "P", "r", "o", "g", "r", "a", "m", " ", "F", "i", "l", "e", "s">>,
      <<"C", ":", "\\", "P", "r", "o", "g", "r", "a", "m", " ", "F", "i", "l", "e", "s", " ", "(", "x", "8", "6", ")">>,
      <<"C", ":", "\\", "P", "r", "o", "g", "r", "a", "m", "D", "a", "t", "a">>,
      <<"C", ":", "\\", "$", "R", "e", "c", "y", "c", "l", "e", ".", "B", "i", "n">>,
      <<"C", ":", "\\", "m", "s", "y", "s", "6", "4">>,
      <<"C", ":", "\\", "v", "c", "p", "k", "g">> }

\* The characters of the word stand in the string from position k + 1 on.
WordAt(str, k, word) ==
    /\ k + Len(word) <= Len(str)
    /\ \A i \in 1..Len(word) : str[k + i] = word[i]

IgnoredSystemPath(path) ==
    LET low == Lower(path)
    IN  \/ \E p \in SystemPrefixes : WordAt(path, 0, p)
        \/ \E k \in 0..Len(path) : WordAt(low, k, <<"a", "p", "p", "d", "a", "t", "a">>)
        \/ \E k \in 0..Len(path) : WordAt(low, k, <<"$", "r", "e", "c", "y", "c", "l", "e", ".", "b", "i", "n">>)

\* C14: is_ignored_file is true of a path if and only if the path starts
\* with one of the seven system prefixes, compared as they are written, or
\* holds "appdata" or "$recycle.bin" anywhere, in any case; the category
\* does not change the result.
C14_IgnoredIffPrefixOrWord ==
    \A s \in Scans : pc[s] = "excluded" => \A f \in Range(all_files[s]) :
        /\ is_ignored_file(f, scan_mode[s]) <=> IgnoredSystemPath(f)
        /\ \A m \in ScanModes : is_ignored_file(f, m) <=> is_ignored_file(f, scan_mode[s])

\* The exclusion filters, with no setting to apply, dropped a file for its
\* prefix alone.
C14_Witness ==
    /\ pc[1] = "excluded"
    /\ settings = <<>>
    /\ \E f \in Dropped(1) :
           /\ StartsWith(f, <<"C", ":", "\\", "m", "s", "y", "s", "6", "4">>)
           /\ ~Contains(Lower(f), <<"a", "p", "p", "d", "a", "t", "a">>)

\* C12 as the specification states it: is_downloads is true of a path if and
\* only if one of the components of the normalized path is "downloads" in
\* any case, be it the first, a middle or the last component.
C12_DownloadsSegmentAnywhere ==
    \A s \in Scans : pc[s] = "excluded" => \A f \in Range(all_files[s]) :
        is_downloads(f) <=>
            \E i \in 1..Len(Parts(f)) : Lower(Parts(f)[i]) = <<"d", "o", "w", "n", "l", "o", "a", "d", "s">>

\* C12, amended: is_downloads is true of a path if and only if a component
\* of the normalized path that is neither its first nor its last component
\* is "downloads" in any case.
C12_DownloadsSegmentBetweenSeparators ==
    \A s \in Scans : pc[s] = "excluded" => \A f \in Range(all_files[s]) :
        is_downloads(f) <=>
            \E i \in 2..(Len(Parts(f)) - 1) : Lower(Parts(f)[i]) = <<"d", "o", "w", "n", "l", "o", "a", "d", "s">>

\* With ignore_downloads on and nothing else to apply, the exclusion
\* filters dropped a file of a Downloads folder.
C12_Witness ==
    /\ pc[1] = "excluded"
    /\ GetOr(settings, "ignore_downloads", FALSE)
    /\ GetOr(settings, "skip_folders", <<>>) = <<>>
    /\ \E f \in Dropped(1) : ~is_ignored_file(f, "full")

\* Some segment matches some non-empty pattern, ignoring case.
SegmentMatches(segments, patterns) ==
    \E i \in 1..Len(segments) : \E k \in 1..Len(patterns) :
        /\ Len(patterns[k]) > 0
        /\ fnmatchcase(Lower(segments[i]), Lower(patterns[k]))

InDownloadsFolder(path) ==
    \E i \in 1..(Len(Segments(path)) - 1) : Lower(Segments(path)[i]) = <<"d", "o", "w", "n", "l", "o", "a", "d", "s">>

\* settings["ignore_downloads"] is there and set.
IgnoreDownloadsOn ==
    "ignore_downloads" \in DOMAIN settings /\ settings["ignore_downloads"]

\* settings["skip_folders"], or no pattern.
SkipPatterns ==
    IF "skip_folders" \in DOMAIN settings THEN settings["skip_folders"] ELSE <<>>

\* C11: an absolute path the walk returned is in the filtered result of the
\* scan if and only if its extension belongs to the allow-set of the
\* category, it is not an ignored system path, it is not in a downloads
\* folder when ignore_downloads is on, and none of its segments matches a
\* skip pattern; settings without ignore_downloads count as ignore_downloads
\* off.
C11_RetainedIffAllFiltersPass ==
    \A s \in Scans : pc[s] = "excluded" =>
        \A f \in Range(all_files[s]) :
            IsAbsolute(f) =>
                ((f \in Kept(s)) <=>
                    /\ Lower(Extension(f)) \in AllowSet(scan_mode[s])
                    /\ ~IgnoredSystemPath(f)
                    /\ ~IgnoreDownloadsOn \/ ~InDownloadsFolder(f)
                    /\ ~SegmentMatches(Segments(f), SkipPatterns))

\* The paths of the records of the filtered result, in order.
FilteredPaths(s) == [i \in 1..Len(filtered_files[s]) |-> filtered_files[s][i].path]

\* The last folder or file name of the path.
LastSegment(path) == Segments(path)[Len(Segments(path))]

\* C27: the result of the category filter is the list of the walk without
\* the paths the filter drops, and the paths of the filtered result are the
\* list of the walk without the paths a filter drops: every occurrence of a
\* retained path is there, in the order of the walk.  The name of each
\* record is the last segment of its path and its type the category of the
\* scan.
C27_OrderPreservingSelection ==
    \A s \in Scans : pc[s] = "excluded" =>
        /\ files_to_scan[s] =
               SelectSeq(all_files[s], LAMBDA f : f \in Range(files_to_scan[s]))
        /\ FilteredPaths(s) = SelectSeq(all_files[s], LAMBDA f : f \in Kept(s))
        /\ \A i \in 1..Len(filtered_files[s]) :
               /\ filtered_files[s][i].name = LastSegment(filtered_files[s][i].path)
               /\ filtered_files[s][i].type = scan_mode[s]
               /\ DOMAIN filtered_files[s][i] = {"path", "name", "type"}

\* The walk returned the same path twice, and the filtered result holds two
\* records for it.
C27_Witness ==
    /\ pc[1] = "excluded"
    /\ Len(all_files[1]) = 2
    /\ all_files[1][1] = all_files[1][2]
    /\ FilteredPaths(1) = all_files[1]

----------------------------------------------------------------------------
(* Claims about the reports of a scan *)

\* The values the scan has passed to safe_update_progress, in order.
ProgressReports(s) ==
    LET calls == SelectSeq(reported[s], LAMBDA c : c.widget = "progress")
    IN  [i \in 1..Len(calls) |-> calls[i].value]

\* The texts the scan has passed to safe_update_status.
StatusReports(s) ==
    { reported[s][i].value.words :
          i \in { j \in 1..Len(reported[s]) : reported[s][j].widget = "status" } }

\* The lists the scan has asked the backup button to be enabled with.
BackupReports(s) ==
    { reported[s][i].value :
          i \in { j \in 1..Len(reported[s]) : reported[s][j].widget = "backup" } }

IsPrefix(a, b) == Len(a) <= Len(b) /\ a = SubSeq(b, 1, Len(a))

\* C15: the progress reports of a scan are a beginning of 25, 50, 100; the
\* scan reports 25 only when scan_all_files has returned, 50 only when the
\* category filter has run, and 100 only when the exclusion filters have
\* run and the scan has written their result to results.json.
C15_ProgressMilestonesInOrder ==
    \A s \in Scans :
        /\ IsPrefix(ProgressReports(s), <<25, 50, 100>>)
        /\ Len(ProgressReports(s)) >= 1 =>
               pc[s] \notin {"idle", "start", "walking"}
        /\ Len(ProgressReports(s)) >= 2 =>
               /\ pc[s] \notin {"idle", "start", "walking", "returned", "walked"}
               /\ files_to_scan[s] = get_files_by_scan_mode(all_files[s], scan_mode[s])
        /\ Len(ProgressReports(s)) >= 3 =>
               /\ filtered_files[s] =
                      apply_additional_filters(files_to_scan[s], scan_mode[s], settings)
               /\ persisted[s] = File(filtered_files[s])

\* A scan has made its three reports, and a scan started later has brought
\* the progress bar back to 25.
C15_Witness ==
    /\ ProgressReports(1) = <<25, 50, 100>>
    /\ ProgressReports(2) = <<25>>
    /\ Len(filtered_files[1]) = 1
    /\ progress = 25
    /\ ui_queue = <<>>

\* C16: the first progress report of a scan is 0, and the scan makes it
\* before it calls scan_all_files.
C16_ZeroReportedAtStart ==
    \A s \in Scans :
        pc[s] \notin {"idle", "start"} =>
            (ProgressReports(s) # <<>> /\ ProgressReports(s)[1] = 0)

\* The texts run_scraper gives the status label when nothing fails.
UsualTexts == { "Preparing scan directories...", "Found files for scan.",
                "scan complete!" }

\* C17: when save_results has failed, the scan has reported an error
\* through the status label, and has reported neither 100 nor its
\* completion, nor asked for the backup button to be enabled.
C17_SaveFailureReported ==
    \A s \in Scans :
        pc[s] = "save_failed" =>
            /\ StatusReports(s) \ UsualTexts # {}
            /\ \A i \in 1..Len(ProgressReports(s)) : ProgressReports(s)[i] # 100
            /\ "scan complete!" \notin StatusReports(s)
            /\ BackupReports(s) = {}

\* C18: the backup button is enabled only when a scan has completed; a scan
\* asks for the button to be enabled only with the list it has written to
\* results.json; the list bound to the button is the list a completed scan
\* has written, and the type of each of its records is the category of that
\* scan.
C18_BackupEnabledAfterSave ==
    /\ backup_enabled =>
           \E s \in Scans :
               /\ pc[s] = "complete"
               /\ persisted[s] = File(backup_files)
               /\ \A i \in 1..Len(backup_files) : backup_files[i].type = scan_mode[s]
    /\ \A s \in Scans : \A l \in BackupReports(s) : persisted[s] = File(l)

\* The button is bound to the list of one scan while results.json holds the
\* list of another.
C18_Witness ==
    /\ backup_enabled
    /\ backup_files # <<>>
    /\ results_json = File(<<>>)
    /\ ui_queue = <<>>

\* C24: when a scan was started while another was running, and both have
\* completed and their callbacks have run, results.json holds the list of
\* one of the scans and the backup button is bound to the list of the same
\* scan.
C24_FileAndButtonOfSameScan ==
    (/\ overlapped
     /\ \A s \in Scans : pc[s] = "complete"
     /\ ui_queue = <<>>) =>
        \E s \in Scans :
            /\ results_json = File(filtered_files[s])
            /\ backup_files = filtered_files[s]

----------------------------------------------------------------------------
(* Claims about the backup *)

\* The number of copies of the log that succeeded.
Succeeded == Cardinality({ i \in 1..Len(bk_log) : bk_log[i].ok })

\* C20: perform_backup attempts the files of its list in the order of the
\* list, whichever copies fail; it leaves its loop only when it has
\* attempted every file, and the count it then shows is the number of
\* copies that succeeded, at most the length of the list.
C20_EveryFileAttemptedAndCounted ==
    /\ Len(bk_log) <= Len(files_to_backup)
    /\ \A i \in 1..Len(bk_log) : bk_log[i].path = files_to_backup[i].path
    /\ bk_pc \in {"loop", "done"} => copied = Succeeded
    /\ bk_pc = "done" =>
           /\ Len(bk_log) = Len(files_to_backup)
           /\ bk_shown = Succeeded
           /\ bk_shown <= Len(files_to_backup)
    /\ (bk_log # <<>> /\ bk_pc # "loop") =>
           (bk_pc = "done" /\ Len(bk_log) = Len(files_to_backup))

\* The first copy failed, the second succeeded, and the count shown is 1.
C20_Witness ==
    /\ bk_pc = "done"
    /\ Len(bk_log) = 2
    /\ ~bk_log[1].ok /\ bk_log[2].ok
    /\ bk_shown = 1

\* The files of the backup tree: the destinations of the copies that
\* succeeded.
BackupTree == { bk_log[i].dst : i \in { j \in 1..Len(bk_log) : bk_log[j].ok } }

\* C25: in category mode, two copies that succeeded from two distinct source
\* files have two distinct destinations, and the count shown at the end is
\* the number of files of the backup tree.
C25_NoDestinationTwice ==
    use_categories =>
        /\ \A i, j \in 1..Len(bk_log) :
               (bk_log[i].ok /\ bk_log[j].ok /\ bk_log[i].path # bk_log[j].path)
                   => bk_log[i].dst # bk_log[j].dst
        /\ bk_pc = "done" => bk_shown = Cardinality(BackupTree)

----------------------------------------------------------------------------
(* Claims about the settings *)

\* Whether the file lies in the folder or below it.
InFolder(path, folder) == StartsWith(path, Append(folder, sep))

\* C26: when the exclusion filters of a scan have run, the filtered result
\* holds no file in or below a folder that block_selected stored in the
\* settings before the scan started (and that was not removed since).
C26_BlockedFolderExcluded ==
    \A s \in Scans : pc[s] = "excluded" =>
        \A folder \in blocked : \A f \in Kept(s) : ~InFolder(f, folder)

\* The patterns of the settings.
SkipFolders == GetOr(settings, "skip_folders", <<>>)

\* No pattern of the settings is empty and none is there twice.
NoEmptyNoDuplicate ==
    /\ \A i \in 1..Len(SkipFolders) : SkipFolders[i] # <<>>
    /\ \A i, j \in 1..Len(SkipFolders) : SkipFolders[i] = SkipFolders[j] => i = j

\* C28: the patterns of the settings hold no empty pattern and no pattern
\* twice, and a step of remove_skip deletes from them the pattern that is
\* selected in the list box of its window.
C28_SkipListKeptAsShown ==
    /\ []NoEmptyNoDuplicate
    /\ [][\A w \in Windows : \A index \in 1..MaxPatterns :
             remove_skip(w, index) =>
                 /\ index <= Len(SkipFolders)
                 /\ SkipFolders[index] = skip_listbox[w].items[index]]_vars

====
